---- MODULE Spec2Model ----
(***************************************************************************)
(* Model of opper-openapi-docs: the incremental generation pipeline        *)
(* (generate / updateManifest), the section hash (computeSectionHash) and  *)
(* the navigation builder of the static-site renderer (buildNav).          *)
(*                                                                         *)
(* JavaScript values are encoded as follows.                               *)
(*   string            a TLA+ string                                       *)
(*   array             a sequence                                          *)
(*   plain object      a sequence of <<key, value>> pairs, in insertion    *)
(*                     order (the order JSON.stringify walks the keys)     *)
(*   Map               a sequence of <<key, value>> pairs, in insertion    *)
(*                     order (the order the Map iterates)                  *)
(* The text JSON.stringify returns is a sequence of tokens; two texts are  *)
(* equal exactly when their token sequences are equal.                     *)
(***************************************************************************)
EXTENDS Integers, Sequences, FiniteSets, TLC

\* ------------------------------------------------------------------------
\* Bounds of the model
\* ------------------------------------------------------------------------

\* longest plan the Planner returns
MaxPlan == 2

\* longest section list a manifest handed to the renderer holds
MaxNav == 3

\* ------------------------------------------------------------------------
\* Generic helpers
\* ------------------------------------------------------------------------

Range(s) == {s[i] : i \in DOMAIN s}

RECURSIVE Flatten(_)
\* concatenation of a sequence of token sequences
Flatten(ss) == IF ss = <<>> THEN <<>> ELSE Head(ss) \o Flatten(Tail(ss))

RECURSIVE JoinComma(_)
\* the items of an array or object, separated by commas
JoinComma(ss) ==
  IF ss = <<>> THEN <<>>
  ELSE IF Len(ss) = 1 THEN ss[1]
  ELSE ss[1] \o <<",">> \o JoinComma(Tail(ss))

RECURSIVE SelectSeqIdx(_, _)
\* the subsequence of s at the positions of the set keep
SelectSeqIdx(s, keep) ==
  IF s = <<>> THEN <<>>
  ELSE LET n == Len(s)
           front == SelectSeqIdx(SubSeq(s, 1, n - 1), keep)
       IN IF n \in keep THEN Append(front, s[n]) ELSE front

\* Array.prototype.sort / toSorted with a comparator that orders by the
\* integer key[i] of the element at position i: a stable sort.
RECURSIVE StableSortIdx(_, _)
StableSortIdx(idx, key) ==
  \* idx: sequence of positions still to insert, key: position -> integer
  IF idx = <<>> THEN <<>>
  ELSE LET n == Len(idx)
           front == StableSortIdx(SubSeq(idx, 1, n - 1), key)
           x == idx[n]
           \* x goes after every element whose key is <= key[x]
           before == {i \in DOMAIN front : key[front[i]] <= key[x]}
           k == Cardinality(before)
       IN SubSeq(front, 1, k) \o <<x>> \o SubSeq(front, k + 1, Len(front))

SortByKey(s, key) ==
  LET order == StableSortIdx([i \in DOMAIN s |-> i], key)
  IN [i \in DOMAIN s |-> s[order[i]]]

\* ------------------------------------------------------------------------
\* JSON.stringify
\* ------------------------------------------------------------------------

\* a string value: "s"
JStr(s) == <<"\"", s>>

\* an array whose items are already serialised
JArr(items) == <<"[">> \o JoinComma(items) \o <<"]">>

\* an object given as a sequence of <<key, serialised value>> pairs
JObj(kvs) ==
  <<"{">> \o JoinComma([i \in DOMAIN kvs |-> JStr(kvs[i][1]) \o <<":">> \o kvs[i][2]])
          \o <<"}">>

\* a plain object whose values are strings, keys in insertion order
JStrObj(o) == JObj([i \in DOMAIN o |-> <<o[i][1], JStr(o[i][2])>>])

\* a Map has no enumerable own properties: JSON.stringify gives {}
JMap(m) == <<"{", "}">>

\* ------------------------------------------------------------------------
\* Strings of the model and their order
\* ------------------------------------------------------------------------

\* Position of a string in the order String.prototype.localeCompare and the
\* default comparator of toSorted() put the strings of the model in; the
\* two orders agree on every pair of strings the code compares here (names
\* with names, paths with paths, codes with codes).
StrRank(s) ==
  CASE s = "/pets" -> 1
    [] s = "/store" -> 2
    [] s = "200" -> 3
    [] s = "404" -> 4
    [] s = "500" -> 5
    [] s = "Order" -> 6
    [] s = "Pet" -> 7
    [] s = "default" -> 8
    [] s = "get" -> 9
    [] s = "gone" -> 10
    [] s = "missing" -> 11
    [] s = "ok" -> 12
    [] s = "pets" -> 13
    [] s = "post" -> 14
    [] s = "store" -> 15
    [] OTHER -> 0

\* String.prototype.startsWith for the status codes of the model
startsWith(code, c) ==
  CASE c = "4" -> code \in {"404"}
    [] c = "5" -> code \in {"500"}
    [] OTHER -> FALSE

\* names.toSorted(): a sorted copy of an array of strings
toSorted(names) == SortByKey(names, [i \in DOMAIN names |-> StrRank(names[i])])

\* ------------------------------------------------------------------------
\* Map
\* ------------------------------------------------------------------------

\* Map.prototype.has
MapHas(m, k) == \E i \in DOMAIN m : m[i][1] = k

\* Map.prototype.get, for a key the map has
MapGet(m, k) == m[CHOOSE i \in DOMAIN m : m[i][1] = k][2]

\* ------------------------------------------------------------------------
\* SpecIndex and its serialisation
\* ------------------------------------------------------------------------
\* SpecIndex == [info: object, servers: array of url, tags: array of
\*   [name, description], schemas: Map name -> object, pathsByTag: Map tag ->
\*   array of [path, method, operation], security: array of object]
\* A tag without a description has description = Undefined.

Undefined == "undefined"

\* {"url": u}
JServer(u) == JObj(<< <<"url", JStr(u)>> >>)

\* an operation: {"operationId": id, "responses": {code: {"description": d}}}
JOperation(op) ==
  JObj(<< <<"operationId", JStr(op.operationId)>>,
          <<"responses",
            JObj([i \in DOMAIN op.responses |->
                   <<op.responses[i][1], JStrObj(op.responses[i][2])>>])>> >>)

\* an element of a pathsByTag list: {path, method, operation}
JEndpoint(e) ==
  JObj(<< <<"path", JStr(e.path)>>, <<"method", JStr(e.method)>>,
          <<"operation", JOperation(e.operation)>> >>)

JEndpoints(es) == JArr([i \in DOMAIN es |-> JEndpoint(es[i])])

\* {name, description}: a key whose value is undefined is left out
JTag(t) ==
  JObj(<< <<"name", JStr(t.name)>> >>
       \o (IF t.description = Undefined THEN <<>>
           ELSE << <<"description", JStr(t.description)>> >>))

\* JSON.stringify(specIndex): the two Map-valued properties come out as {}
JSpecIndex(ix) ==
  JObj(<< <<"info", JStrObj(ix.info)>>,
          <<"servers", JArr([i \in DOMAIN ix.servers |-> JServer(ix.servers[i])])>>,
          <<"tags", JArr([i \in DOMAIN ix.tags |-> JTag(ix.tags[i])])>>,
          <<"schemas", JMap(ix.schemas)>>,
          <<"pathsByTag", JMap(ix.pathsByTag)>>,
          <<"security", JArr([i \in DOMAIN ix.security |-> JStrObj(ix.security[i])])>> >>)

\* sha256: a collision-free digest of a text
sha256(text) == <<"sha256">> \o text

\* ------------------------------------------------------------------------
\* computeSectionHash
\* ------------------------------------------------------------------------

\* every response of one endpoint, whatever its status code
ErrorsOfEndpointAll(e) ==
  LET rs == e.operation.responses
  IN [i \in DOMAIN rs |->
        [path |-> e.path, method |-> e.method, code |-> rs[i][1], response |-> rs[i][2]]]

\* the error responses of one endpoint, in the order of its responses object
ErrorsOfEndpoint(e) ==
  LET rs == e.operation.responses
      keep == {i \in DOMAIN rs : startsWith(rs[i][1], "4") \/ startsWith(rs[i][1], "5")}
      kept == SelectSeqIdx(rs, keep)
  IN [i \in DOMAIN kept |->
        [path |-> e.path, method |-> e.method, code |-> kept[i][1], response |-> kept[i][2]]]

\* {path, method, code, response}
JErrorResponse(r) ==
  JObj(<< <<"path", JStr(r.path)>>, <<"method", JStr(r.method)>>,
          <<"code", JStr(r.code)>>, <<"response", JStrObj(r.response)>> >>)

\* position of JSON.stringify(r) under localeCompare: the texts differ first
\* in the path, then the method, then the code, then the response
ErrorKey(r) ==
  ((StrRank(r.path) * 16 + StrRank(r.method)) * 16 + StrRank(r.code)) * 16
    + (IF r.response = <<>> THEN 0 ELSE StrRank(r.response[1][2]))

\* every error response of every endpoint of every tag, Map order
AllErrorResponses(ix) ==
  Flatten([t \in DOMAIN ix.pathsByTag |->
    Flatten([j \in DOMAIN ix.pathsByTag[t][2] |->
      ErrorsOfEndpoint(ix.pathsByTag[t][2][j])])])

\* the overview case with the schema entries pushed as well
OverviewPartsWithSchemas(specIndex) ==
  << JStrObj(specIndex.info),
     JArr([i \in DOMAIN specIndex.servers |-> JServer(specIndex.servers[i])]),
     JArr([i \in DOMAIN specIndex.tags |-> JTag(specIndex.tags[i])]),
     JArr([i \in DOMAIN specIndex.schemas |->
             JArr(<<JStr(specIndex.schemas[i][1]), JStrObj(specIndex.schemas[i][2])>>)]) >>

\* case "overview": info, servers, tags as {name, description}
OverviewParts(specIndex) ==
  << JStrObj(specIndex.info),
     JArr([i \in DOMAIN specIndex.servers |-> JServer(specIndex.servers[i])]),
     JArr([i \in DOMAIN specIndex.tags |-> JTag(specIndex.tags[i])]) >>

\* case "auth": the security list
AuthParts(specIndex) ==
  << JArr([i \in DOMAIN specIndex.security |-> JStrObj(specIndex.security[i])]) >>

\* the endpoint-group case without the loop over relatedSchemas
EndpointGroupPartsTagsOnly(section, specIndex) ==
  LET tags == toSorted(section.relatedTags)
  IN [i \in DOMAIN tags |->
        JObj(<< <<"tag", JStr(tags[i])>>,
                <<"endpoints",
                  IF MapHas(specIndex.pathsByTag, tags[i])
                  THEN JEndpoints(MapGet(specIndex.pathsByTag, tags[i]))
                  ELSE JArr(<<>>)>> >>)]

\* the endpoint-group case with the two lists taken as the section gives them
EndpointGroupPartsUnsorted(section, specIndex) ==
  LET tags == section.relatedTags
      schemas == section.relatedSchemas
  IN [i \in DOMAIN tags |->
        JObj(<< <<"tag", JStr(tags[i])>>,
                <<"endpoints",
                  IF MapHas(specIndex.pathsByTag, tags[i])
                  THEN JEndpoints(MapGet(specIndex.pathsByTag, tags[i]))
                  ELSE JArr(<<>>)>> >>)]
     \o
     [i \in DOMAIN schemas |->
        JObj(<< <<"schema", JStr(schemas[i])>> >>
             \o (IF MapHas(specIndex.schemas, schemas[i])
                 THEN << <<"definition", JStrObj(MapGet(specIndex.schemas, schemas[i]))>> >>
                 ELSE <<>>))]

\* case "endpoint-group": {tag, endpoints} per related tag, then
\* {schema, definition} per related schema, each list sorted
EndpointGroupParts(section, specIndex) ==
  LET tags == toSorted(section.relatedTags)
      schemas == toSorted(section.relatedSchemas)
  IN [i \in DOMAIN tags |->
        JObj(<< <<"tag", JStr(tags[i])>>,
                <<"endpoints",
                  IF MapHas(specIndex.pathsByTag, tags[i])
                  THEN JEndpoints(MapGet(specIndex.pathsByTag, tags[i]))
                  ELSE JArr(<<>>)>> >>)]
     \o
     [i \in DOMAIN schemas |->
        JObj(<< <<"schema", JStr(schemas[i])>> >>
             \o (IF MapHas(specIndex.schemas, schemas[i])
                 THEN << <<"definition", JStrObj(MapGet(specIndex.schemas, schemas[i]))>> >>
                 ELSE <<>>))]

\* case "schemas": the [name, definition] entries sorted by name
SchemasParts(specIndex) ==
  LET m == specIndex.schemas
      entries == SortByKey(m, [i \in DOMAIN m |-> StrRank(m[i][1])])
  IN << JArr([i \in DOMAIN entries |->
               JArr(<<JStr(entries[i][1]), JStrObj(entries[i][2])>>)]) >>

\* case "errors": every 4xx and 5xx response, sorted by its JSON text
ErrorsParts(specIndex) ==
  LET all == AllErrorResponses(specIndex)
      sorted == SortByKey(all, [i \in DOMAIN all |-> ErrorKey(all[i])])
  IN << JArr([i \in DOMAIN sorted |-> JErrorResponse(sorted[i])]) >>

\* the parts array of computeSectionHash, each part serialised
HashParts(section, specIndex) ==
  CASE section.type = "overview" -> OverviewParts(specIndex)
    [] section.type = "auth" -> AuthParts(specIndex)
    [] section.type = "endpoint-group" -> EndpointGroupParts(section, specIndex)
    [] section.type = "schemas" -> SchemasParts(specIndex)
    [] section.type = "errors" -> ErrorsParts(specIndex)
    [] OTHER -> <<>>

\* the section's title hashed with the parts
computeSectionHashWithTitle(section, specIndex) ==
  sha256(JArr(Append(HashParts(section, specIndex), JStr(section.title))))

\* the hash of an array no part was pushed to
computeSectionHashNoParts(section, specIndex) == sha256(JArr(<<>>))

computeSectionHash(section, specIndex) == sha256(JArr(HashParts(section, specIndex)))

\* ------------------------------------------------------------------------
\* Inputs of the generation runs
\* ------------------------------------------------------------------------

InfoV1 == << <<"title", "Petstore">>, <<"version", "1.0.0">> >>
InfoV2 == << <<"title", "Petstore">>, <<"version", "2.0.0">> >>
InfoVals == {InfoV1, InfoV2}

PetV1 == << <<"type", "object">>, <<"required", "name">> >>
PetV2 == << <<"type", "object">>, <<"required", "id">> >>
PetDefs == {PetV1, PetV2}

ListPets ==
  [path |-> "/pets", method |-> "get",
   operation |-> [operationId |-> "listPets",
                  responses |-> << <<"200", << <<"description", "ok">> >> >>,
                                   <<"404", << <<"description", "missing">> >> >> >>]]

GetInventory ==
  [path |-> "/store", method |-> "get",
   operation |-> [operationId |-> "getInventory",
                  responses |-> << <<"200", << <<"description", "ok">> >> >> >>]]

\* the index buildSpecIndex returns for a spec with the given info object
\* and the given definition of schema Pet
SpecIndexOf(info, pet) ==
  [info |-> info,
   servers |-> << "https://api.example.com" >>,
   tags |-> << [name |-> "pets", description |-> "Pet operations"],
               [name |-> "store", description |-> Undefined] >>,
   schemas |-> << <<"Pet", pet>> >>,
   pathsByTag |-> << <<"pets", <<ListPets>> >>, <<"store", <<GetInventory>> >> >>,
   security |-> << << <<"type", "apiKey">>, <<"name", "X-API-Key">> >> >>]

\* the specs of the runs: a first one, one that differs from it in info only,
\* and one that differs from the second in schema Pet only
IndexVals == {SpecIndexOf(InfoV1, PetV1), SpecIndexOf(InfoV2, PetV1), SpecIndexOf(InfoV2, PetV2)}

\* config.instructions: absent or a text
InstructionVals == {Undefined, "Write concise docs"}

NoGroup == ""

SecOverview ==
  [id |-> "overview", title |-> "Overview", outputPath |-> "index.md",
   type |-> "overview", description |-> "API overview",
   group |-> NoGroup, relatedTags |-> <<>>, relatedSchemas |-> <<>>, order |-> 0]

SecPets ==
  [id |-> "tag:pets", title |-> "Pets", outputPath |-> "endpoints/pets.md",
   type |-> "endpoint-group", description |-> "Pet endpoints",
   group |-> "Resources", relatedTags |-> <<"pets">>, relatedSchemas |-> <<"Pet">>,
   order |-> 1]

\* the same section moved to another file
SecPetsMoved == [SecPets EXCEPT !.outputPath = "pets.md"]

SectionPool == {SecOverview, SecPets, SecPetsMoved}

Paths == {s.outputPath : s \in SectionPool}

\* the plans the Planner may return: section ids and output paths are unique
PlanVals ==
  {p \in UNION {[1..n -> SectionPool] : n \in 0..MaxPlan} :
     \A i, j \in DOMAIN p :
        i # j => p[i].id # p[j].id /\ p[i].outputPath # p[j].outputPath}

\* what the Writer returns for a section: {title, markdown}
WriterOutputs == {[title |-> "Generated", markdown |-> "Body text."]}

\* ------------------------------------------------------------------------
\* Manifest store
\* ------------------------------------------------------------------------

\* a file that is not there
NoFile == <<>>

\* the value readManifest returns when there is no usable manifest (null)
NullManifest ==
  [present |-> FALSE, version |-> 1, specHash |-> <<>>, instructionsHash |-> <<>>,
   sections |-> <<>>]

\* the manifest file when it is missing, and when it holds malformed JSON
MissingFile == [state |-> "missing", content |-> NullManifest]
CorruptFile == [state |-> "corrupt", content |-> NullManifest]

\* readManifest(outputDir): the parsed manifest, null when the file is
\* missing or is not valid JSON
readManifest(file) == IF file.state = "ok" THEN file.content ELSE NullManifest

\* writeManifest(outputDir, manifest): replaces the file
writeManifest(m) == [state |-> "ok", content |-> m]

\* manifest.sections[id] is defined
HasEntry(sections, id) == MapHas(sections, id)

\* manifest.sections[id]
EntryOf(sections, id) == MapGet(sections, id)

\* obj[key] = value on an object kept as a sequence of pairs: a new key goes
\* last, an old key keeps its place
ObjSet(o, k, v) ==
  IF MapHas(o, k)
  THEN [i \in DOMAIN o |-> IF o[i][1] = k THEN <<k, v>> ELSE o[i]]
  ELSE Append(o, <<k, v>>)

\* new Date().toISOString(): no code reads the value back
Timestamp == "now"

\* every entry given the hash of the first section of the plan
ManifestSectionsFirstHash(sections, ix) ==
  [i \in DOMAIN sections |->
     <<sections[i].id, [contentHash |-> computeSectionHash(sections[1], ix),
                        outputPath |-> sections[i].outputPath,
                        generatedAt |-> Timestamp]>>]

RECURSIVE ManifestSections(_, _)
\* the sections object updateManifest builds, one assignment per plan section
ManifestSections(sections, ix) ==
  IF sections = <<>> THEN <<>>
  ELSE LET n == Len(sections)
           s == sections[n]
       IN ObjSet(ManifestSections(SubSeq(sections, 1, n - 1), ix), s.id,
                 [contentHash |-> computeSectionHash(s, ix),
                  outputPath |-> s.outputPath,
                  generatedAt |-> Timestamp])

\* the manifest updateManifest writes
NewManifest(planSections, ix, sHash, iHash) ==
  [present |-> TRUE, version |-> 1, specHash |-> sHash, instructionsHash |-> iHash,
   sections |-> ManifestSections(planSections, ix)]

\* ------------------------------------------------------------------------
\* State
\* ------------------------------------------------------------------------

VARIABLES
  \* the output directory
  outDirExists,      \* the output directory exists
  manifestFile,      \* .openapi-docs-manifest.json
  files,             \* outputPath -> text of the file, NoFile when absent
  \* the run of generate in progress (or the last one)
  pc,                \* where generate is
  force,             \* config.force
  instructions,      \* config.instructions
  specIndex,         \* the index buildSpecIndex returned
  specHash,
  instructionsHash,
  manifest,          \* what readManifest returned
  forceAll,
  plan,              \* plan.sections
  sectionsToGenerate,
  results,           \* Map section id -> markdown
  cursor,            \* position of the loop in progress
  \* what the run has done so far
  plannerCalls,      \* number of planner.run calls
  invoked,           \* ids of the sections writer.run was called for
  failed,            \* ids of the sections whose writer.run threw
  written,           \* paths writeFile wrote
  deleted,           \* paths unlink removed
  manifestWrites,    \* number of writeManifest calls
  manifestBefore,    \* the manifest file when the run started
  error,             \* the call whose throw ended generate, "" when none
  \* the renderer's navigation
  navSections,       \* manifest.sections as renderSite reads it
  rendered,          \* renderSite has run
  nav,               \* section id -> what buildNav returned for its page
  pages,             \* the pages renderSite wrote: path, rootPath, hrefs
  \* the render pass in progress
  rpc,               \* where renderSite is
  rcursor,           \* position of the loop in progress
  icon,              \* siteConfig.icon is set
  highlighter,       \* "none", "live" or "disposed"
  created,           \* number of createHighlighter calls
  usedBy,            \* ids of the pages rendered with the highlighter
  rerror,            \* the call whose throw ended renderSite, "" when none
  \* section hashes over two spec indexes
  indexA,
  indexB,
  hashes,            \* per section of HashSections: its hash over A and over B
  \* one heading of a section body
  heading,           \* the text after the ## or ### marker
  anchor             \* the slug of the table of contents and the id on the page

diskVars == <<outDirExists, manifestFile, files>>
runVars == <<pc, force, instructions, specIndex, specHash, instructionsHash,
             manifest, forceAll, plan, sectionsToGenerate, results, cursor>>
doneVars == <<plannerCalls, invoked, failed, written, deleted, manifestWrites,
              manifestBefore, error>>
navVars == <<navSections, rendered, nav, pages>>
passVars == <<rpc, rcursor, icon, highlighter, created, usedBy, rerror>>
hashVars == <<indexA, indexB, hashes>>
slugVars == <<heading, anchor>>
restVars == <<passVars, hashVars, slugVars>>
vars == <<diskVars, runVars, doneVars, navVars, restVars>>

\* generate is not running
Terminal == {"idle", "done", "skipped", "aborted"}

\* no render pass has started
PassIdle ==
  /\ rpc = "idle"
  /\ rcursor = 0
  /\ highlighter = "none"
  /\ created = 0
  /\ usedBy = {}
  /\ rerror = ""

\* no section hash has been computed
HashIdle ==
  /\ indexA = SpecIndexOf(InfoV1, PetV1)
  /\ indexB = SpecIndexOf(InfoV1, PetV1)
  /\ hashes = <<>>

\* no heading has been handled
SlugIdle == heading = <<>> /\ anchor = <<>>

\* ------------------------------------------------------------------------
\* generate, step by step
\* ------------------------------------------------------------------------

\* plan.sections.sort((a, b) => a.order - b.order), also used for
\* sectionsToGenerate
SortByOrder(sections) == SortByKey(sections, [i \in DOMAIN sections |-> sections[i].order])

\* a section counts as cached as soon as the manifest knows its id
NeedsRegenerationIdOnly(section, fAll, m, ix) ==
  fAll \/ ~HasEntry(m.sections, section.id)

\* the filter callback of step 4: the section needs regeneration
NeedsRegeneration(section, fAll, m, ix) ==
  \/ fAll
  \/ ~ (/\ HasEntry(m.sections, section.id)
        /\ EntryOf(m.sections, section.id).contentHash = computeSectionHash(section, ix))

\* every planned section taken as stale
SectionsToGenerateAll(sections, fAll, m, ix) == sections

\* step 4: plan.sections.filter(...)
SectionsToGenerate(sections, fAll, m, ix) ==
  SelectSeqIdx(sections, {i \in DOMAIN sections : NeedsRegeneration(sections[i], fAll, m, ix)})

\* the two hashes compared with the wrong manifest fields
CanSkipSwapped(f, m, sHash, iHash) ==
  /\ ~f
  /\ m.present
  /\ m.specHash = iHash
  /\ m.instructionsHash = sHash

\* the condition of the early return of step 2
CanSkip(f, m, sHash, iHash) ==
  /\ ~f
  /\ m.present
  /\ m.specHash = sHash
  /\ m.instructionsHash = iHash

\* forceAll without the comparison of the instructions
ForceAllNoInstructions(f, m, iHash) == f \/ ~m.present

\* every run regenerates everything
ForceAllAlways(f, m, iHash) == TRUE

\* const forceAll = config.force || !manifest || manifest.instructionsHash !== instructionsHash
ForceAll(f, m, iHash) == f \/ ~m.present \/ m.instructionsHash # iHash

\* sha256(JSON.stringify(specIndex))
SpecHashOf(ix) == sha256(JSpecIndex(ix))

\* sha256(config.instructions ?? "")
InstructionsHashOf(ins) == sha256(<<IF ins = Undefined THEN "" ELSE ins>>)

\* the Writer's markdown stored as it is
MarkdownNoTitle(out) == <<out.markdown>>

\* the markdown stored for a section: `# ${result.title}\n\n${result.markdown}`
Markdown(out) == <<"# ", out.title, "\n\n", out.markdown>>

\* first position >= i of plan.sections that has a result, 0 when none:
\* the loop of step 6 skips the sections without one
NextToWrite(sections, res, i) ==
  LET cand == {j \in DOMAIN sections : j >= i /\ MapHas(res, sections[j].id)}
  IN IF cand = {} THEN 0 ELSE CHOOSE j \in cand : \A k \in cand : j <= k

\* the manifest file after step 4: written at once when nothing is stale
ManifestAfterPlanEager(toGen, old, new) == new

\* the manifest file after step 4: rewritten only on the early return of the
\* branch that finds nothing stale
ManifestAfterPlan(toGen, old, new) == IF Len(toGen) = 0 THEN new ELSE old

\* the results map once the writer call of a section has settled, a failed
\* call storing a result too
ResultsAfterRunAlways(res, id, ok, out) == ObjSet(res, id, Markdown(out))

\* the results map once the writer call of a section has settled: the try
\* block stores the markdown, the catch block stores nothing
ResultsAfterRun(res, id, ok, out) ==
  IF ok THEN ObjSet(res, id, Markdown(out)) ELSE res

\* a writer call that throws ends generate
AfterWriterRethrow(ok, nextPc) == IF ok THEN nextPc ELSE "aborted"

\* where generate goes once the writer call of a section has settled: the
\* catch block logs and the loop goes on
AfterWriter(ok, nextPc) == nextPc

\* steps 1 and 2: parse the spec, create the output directory, hash, read
\* the manifest, return early when nothing changed
Start(f, ins, parseOk, mkdirOk, ix) ==
  /\ pc \in Terminal
  \* mkdir -p fails only where there is no directory yet; the other inputs
  \* of a run that fails at once are immaterial
  /\ ~mkdirOk => (~outDirExists /\ parseOk)
  /\ (~parseOk \/ ~mkdirOk) => (f = FALSE /\ ins = Undefined /\ ix = SpecIndexOf(InfoV1, PetV1))
  /\ force' = f
  /\ instructions' = ins
  /\ plannerCalls' = 0
  /\ invoked' = {}
  /\ failed' = {}
  /\ written' = {}
  /\ deleted' = {}
  /\ manifestWrites' = 0
  /\ manifestBefore' = manifestFile
  /\ plan' = <<>>
  /\ sectionsToGenerate' = <<>>
  /\ results' = <<>>
  /\ cursor' = 0
  /\ UNCHANGED <<manifestFile, files, navVars, restVars>>
  /\ IF ~parseOk
     THEN \* buildSpecIndex throws
          /\ pc' = "aborted"
          /\ error' = "buildSpecIndex"
          /\ forceAll' = FALSE
          /\ manifest' = NullManifest
          /\ UNCHANGED <<outDirExists, specIndex, specHash, instructionsHash>>
     ELSE /\ specIndex' = ix
          /\ IF ~mkdirOk
             THEN \* mkdir(outputDir) throws
                  /\ pc' = "aborted"
                  /\ error' = "mkdir"
                  /\ forceAll' = FALSE
                  /\ manifest' = NullManifest
                  /\ UNCHANGED <<outDirExists, specHash, instructionsHash>>
             ELSE /\ outDirExists' = TRUE
                  /\ error' = ""
                  /\ specHash' = SpecHashOf(ix)
                  /\ instructionsHash' = InstructionsHashOf(ins)
                  /\ manifest' = readManifest(manifestFile)
                  /\ IF CanSkip(f, manifest', specHash', instructionsHash')
                     THEN /\ pc' = "skipped"
                          /\ forceAll' = FALSE
                     ELSE /\ pc' = "planning"
                          /\ forceAll' = ForceAll(f, manifest', instructionsHash')

\* step 3 failing: planner.run throws
PlanFails ==
  /\ pc = "planning"
  /\ plannerCalls' = plannerCalls + 1
  /\ pc' = "aborted"
  /\ error' = "planner.run"
  /\ UNCHANGED <<diskVars, force, instructions, specIndex, specHash, instructionsHash,
                 manifest, forceAll, plan, sectionsToGenerate, results, cursor,
                 invoked, failed, written, deleted, manifestWrites,
                 manifestBefore, navVars, restVars>>

\* steps 3 and 4: the Planner returns p; classify its sections; when none
\* is stale write the manifest and return
Plan(p) ==
  /\ pc = "planning"
  /\ plannerCalls' = plannerCalls + 1
  /\ plan' = SortByOrder(p)
  /\ LET toGen == SectionsToGenerate(plan', forceAll, manifest, specIndex)
     IN IF Len(toGen) = 0
        THEN /\ sectionsToGenerate' = toGen
             /\ manifestWrites' = manifestWrites + 1
             /\ pc' = "done"
             /\ cursor' = 0
        ELSE /\ sectionsToGenerate' = SortByOrder(toGen)
             /\ pc' = "writing"
             /\ cursor' = 1
             /\ UNCHANGED manifestWrites
  /\ manifestFile' =
       ManifestAfterPlan(SectionsToGenerate(plan', forceAll, manifest, specIndex), manifestFile,
                         writeManifest(NewManifest(plan', specIndex, specHash, instructionsHash)))
  /\ UNCHANGED <<outDirExists, files, force, instructions, specIndex, specHash,
                 instructionsHash, manifest, forceAll, results,
                 invoked, failed, written, deleted,
                 manifestBefore, error, navVars, restVars>>

\* step 5, one iteration: writer.run for the next stale section; a throw is
\* caught and logged
WriterRun(ok, out) ==
  /\ pc = "writing"
  /\ LET section == sectionsToGenerate[cursor]
     IN /\ invoked' = invoked \cup {section.id}
        /\ failed' = IF ok THEN failed ELSE failed \cup {section.id}
        /\ results' = ResultsAfterRun(results, section.id, ok, out)
  /\ IF cursor < Len(sectionsToGenerate)
     THEN /\ cursor' = cursor + 1
          /\ pc' = AfterWriter(ok, "writing")
     ELSE LET nxt == NextToWrite(plan, results', 1)
          IN /\ cursor' = nxt
             /\ pc' = AfterWriter(ok, IF nxt = 0 THEN "cleanup" ELSE "files")
  /\ UNCHANGED <<diskVars, force, instructions, specIndex, specHash, instructionsHash,
                 manifest, forceAll, plan, sectionsToGenerate,
                 plannerCalls, written, deleted, manifestWrites,
                 manifestBefore, error, navVars, restVars>>

\* step 6, one iteration: mkdir and writeFile for the next section that has
\* a result; a throw of either aborts generate
WriteFile(ok) ==
  /\ pc = "files"
  /\ LET section == plan[cursor]
         nxt == NextToWrite(plan, results, cursor + 1)
     IN IF ok
        THEN /\ files' = [files EXCEPT ![section.outputPath] =
                            MapGet(results, section.id) \o <<"\n">>]
             /\ written' = written \cup {section.outputPath}
             /\ cursor' = nxt
             /\ pc' = IF nxt = 0 THEN "cleanup" ELSE "files"
             /\ UNCHANGED error
        ELSE /\ pc' = "aborted"
             /\ error' = "writeFile"
             /\ UNCHANGED <<files, written, cursor>>
  /\ UNCHANGED <<outDirExists, manifestFile, force, instructions, specIndex, specHash,
                 instructionsHash, manifest, forceAll, plan, sectionsToGenerate, results,
                 plannerCalls, invoked, failed, deleted, manifestWrites,
                 manifestBefore, navVars, restVars>>

\* the output paths of the previous manifest that the plan no longer has
OrphanPaths(m, sections) ==
  IF m.present
  THEN {m.sections[i][2].outputPath : i \in DOMAIN m.sections}
         \ {sections[i].outputPath : i \in DOMAIN sections}
  ELSE {}

\* step 7: unlink every orphan; an unlink that throws (the file is already
\* gone) is ignored
Cleanup ==
  /\ pc = "cleanup"
  /\ LET orphans == OrphanPaths(manifest, plan)
     IN /\ files' = [q \in DOMAIN files |-> IF q \in orphans THEN NoFile ELSE files[q]]
        /\ deleted' = deleted \cup {q \in orphans \cap DOMAIN files : files[q] # NoFile}
  /\ pc' = "manifest"
  /\ UNCHANGED <<outDirExists, manifestFile, force, instructions, specIndex, specHash,
                 instructionsHash, manifest, forceAll, plan, sectionsToGenerate, results,
                 cursor, plannerCalls, invoked, failed, written, manifestWrites,
                 manifestBefore, error, navVars, restVars>>

\* step 8: updateManifest
UpdateManifest ==
  /\ pc = "manifest"
  /\ manifestFile' = writeManifest(NewManifest(plan, specIndex, specHash, instructionsHash))
  /\ manifestWrites' = manifestWrites + 1
  /\ pc' = "done"
  /\ UNCHANGED <<outDirExists, files, force, instructions, specIndex, specHash,
                 instructionsHash, manifest, forceAll, plan, sectionsToGenerate, results,
                 cursor, plannerCalls, invoked, failed, written, deleted,
                 manifestBefore, error, navVars, restVars>>

\* ------------------------------------------------------------------------
\* The generation pipeline: any number of generate runs over one directory
\* ------------------------------------------------------------------------

Init ==
  /\ \/ outDirExists = FALSE /\ manifestFile = MissingFile
     \/ outDirExists = TRUE /\ manifestFile = CorruptFile
  /\ files = [q \in Paths |-> NoFile]
  /\ pc = "idle"
  /\ force = FALSE
  /\ instructions = Undefined
  /\ specIndex = SpecIndexOf(InfoV1, PetV1)
  /\ specHash = <<>>
  /\ instructionsHash = <<>>
  /\ manifest = NullManifest
  /\ forceAll = FALSE
  /\ plan = <<>>
  /\ sectionsToGenerate = <<>>
  /\ results = <<>>
  /\ cursor = 0
  /\ plannerCalls = 0
  /\ invoked = {}
  /\ failed = {}
  /\ written = {}
  /\ deleted = {}
  /\ manifestWrites = 0
  /\ manifestBefore = manifestFile
  /\ error = ""
  /\ navSections = <<>>
  /\ rendered = FALSE
  /\ nav = <<>>
  /\ pages = <<>>
  /\ icon = FALSE
  /\ PassIdle
  /\ HashIdle
  /\ SlugIdle

Next ==
  \/ \E f \in BOOLEAN, ins \in InstructionVals, parseOk \in BOOLEAN,
        mkdirOk \in BOOLEAN, ix \in IndexVals :
       Start(f, ins, parseOk, mkdirOk, ix)
  \/ PlanFails
  \/ \E p \in PlanVals : Plan(p)
  \/ \E ok \in BOOLEAN, out \in WriterOutputs : WriterRun(ok, out)
  \/ \E ok \in BOOLEAN : WriteFile(ok)
  \/ Cleanup
  \/ UpdateManifest

Spec == Init /\ [][Next]_vars

\* ------------------------------------------------------------------------
\* The renderer's navigation: renderSite's section list and buildNav
\* ------------------------------------------------------------------------

\* the order of a manifest entry that has none (a.order is undefined)
NoOrder == -1

\* the section ids of a manifest, in the order its sections object lists them
NavIdSeq == <<"a", "b", "c", "d">>
NavIds == Range(NavIdSeq)
NavGroups == {NoGroup, "X", "Y"}
NavOrders == {NoOrder, 0, 1, 2}

\* the output path the manifest records for a section id
NavOutputPath(id) ==
  CASE id = "a" -> "index.md"
    [] id = "b" -> "b.md"
    [] id = "c" -> "endpoints/c.md"
    [] OTHER -> "endpoints/d.md"

\* the output paths a manifest may record for a section id: section b may
\* also sit in a nested directory, or at a path that does not end in .md
NavPaths(id) ==
  IF id = "b" THEN {"b.md", "guides/v2/b.md", "index.html"} ELSE {NavOutputPath(id)}

\* outputPath.replace(/\.md$/, ".html")
HtmlPath(outputPath) ==
  CASE outputPath = "index.md" -> "index.html"
    [] outputPath = "b.md" -> "b.html"
    [] outputPath = "guides/v2/b.md" -> "guides/v2/b.html"
    [] outputPath = "endpoints/c.md" -> "endpoints/c.html"
    [] outputPath = "endpoints/d.md" -> "endpoints/d.html"
    [] OTHER -> outputPath

\* the level-2 and level-3 headings extracted from the file of a section
NavHeadings(id) ==
  IF id = "a" THEN <<>>
  ELSE << [level |-> 2, text |-> "Usage", slug |-> "usage"],
          [level |-> 3, text |-> id, slug |-> id] >>

\* the sections in the order the manifest lists them, not sorted
RenderSectionsUnsorted(manifestSections) ==
  [i \in DOMAIN manifestSections |->
     [id |-> manifestSections[i][1],
      outputPath |-> manifestSections[i][2].outputPath,
      title |-> manifestSections[i][2].title,
      group |-> manifestSections[i][2].group,
      order |-> manifestSections[i][2].order]]

\* Object.entries(manifest.sections).map(([id, sec]) => ({ id, ...sec }))
\*   .sort((a, b) => (a.order ?? 0) - (b.order ?? 0))
RenderSections(manifestSections) ==
  LET listed == [i \in DOMAIN manifestSections |->
                   [id |-> manifestSections[i][1],
                    outputPath |-> manifestSections[i][2].outputPath,
                    title |-> manifestSections[i][2].title,
                    group |-> manifestSections[i][2].group,
                    order |-> manifestSections[i][2].order]]
  IN SortByKey(listed, [i \in DOMAIN listed |->
                          IF listed[i].order = NoOrder THEN 0 ELSE listed[i].order])

\* sectionData.get(id), as far as buildNav reads it
SectionData(sections, id) ==
  LET sec == sections[CHOOSE i \in DOMAIN sections : sections[i].id = id]
  IN [headings |-> NavHeadings(id), htmlPath |-> HtmlPath(sec.outputPath)]

\* toc: undefined
NoToc == [defined |-> FALSE, headings |-> <<>>]

\* isGroup(entry): "items" in entry
isGroup(entry) == "items" \in DOMAIN entry

\* every item carries the headings of its section, active or not
NavItemOfTocAlways(sec, currentPath, data) ==
  [title |-> sec.title, href |-> data.htmlPath, active |-> data.htmlPath = currentPath,
   toc |-> [defined |-> TRUE, headings |-> data.headings]]

\* the NavItem of one section on the page at currentPath
NavItemOf(sec, currentPath, data) ==
  LET isActive == data.htmlPath = currentPath
  IN [title |-> sec.title, href |-> data.htmlPath, active |-> isActive,
      toc |-> IF isActive THEN [defined |-> TRUE, headings |-> data.headings] ELSE NoToc]

\* a bucket is found only when it is the last entry: a section of a label
\* seen earlier opens a second bucket at its own position
GroupIndexAdjacent(entries, label) ==
  IF entries # <<>> /\ isGroup(entries[Len(entries)]) /\ entries[Len(entries)].label = label
  THEN Len(entries) ELSE 0

\* position in entries of the group with this label, 0 when it has none:
\* groups.get(label)
GroupIndex(entries, label) ==
  LET at == {i \in DOMAIN entries : isGroup(entries[i]) /\ entries[i].label = label}
  IN IF at = {} THEN 0 ELSE CHOOSE i \in at : TRUE

RECURSIVE buildNavLoop(_, _, _)
\* the entries after the loop of buildNav has handled the first n sections
buildNavLoop(sections, n, currentPath) ==
  IF n = 0 THEN <<>>
  ELSE LET entries == buildNavLoop(sections, n - 1, currentPath)
           sec == sections[n]
           item == NavItemOf(sec, currentPath, SectionData(sections, sec.id))
           g == GroupIndex(entries, sec.group)
       IN IF sec.group # NoGroup
          THEN IF g = 0
               THEN Append(entries, [label |-> sec.group, items |-> <<item>>])
               ELSE [entries EXCEPT ![g].items = Append(@, item)]
          ELSE Append(entries, item)

buildNav(sections, currentPath) == buildNavLoop(sections, Len(sections), currentPath)

\* the id lists of the manifests renderSite may find: up to MaxNav entries
NavIdLists == {SubSeq(NavIdSeq, 1, n) : n \in {k \in 0..MaxNav : k <= Len(NavIdSeq)}}

NavManifestSections(ids, attrs) ==
  [i \in DOMAIN ids |->
     <<ids[i], [outputPath |-> NavOutputPath(ids[i]), title |-> ids[i],
                group |-> attrs[i][1], order |-> attrs[i][2]]>>]

\* the manifest sections with the entry of one id moved to another path
WithPath(manifestSections, id, path) ==
  [i \in DOMAIN manifestSections |->
     IF manifestSections[i][1] = id
     THEN <<id, [manifestSections[i][2] EXCEPT !.outputPath = path]>>
     ELSE manifestSections[i]]

\* htmlPath.split("/") for the paths of the pages
SplitSlash(path) ==
  CASE path = "endpoints/c.html" -> <<"endpoints", "c.html">>
    [] path = "endpoints/d.html" -> <<"endpoints", "d.html">>
    [] path = "guides/v2/b.html" -> <<"guides", "v2", "b.html">>
    [] OTHER -> <<path>>

\* "../".repeat(depth)
Repeat(str, count) == [i \in 1..count |-> str]

\* every page gets "./"
RootPathFlat(htmlPath) == <<"./">>

\* const depth = data.htmlPath.split("/").length - 1;
\* const rootPath = depth > 0 ? "../".repeat(depth) : "./"
RootPath(htmlPath) ==
  LET depth == Len(SplitSlash(htmlPath)) - 1
  IN IF depth > 0 THEN Repeat("../", depth) ELSE <<"./">>

\* the items of a navigation list, groups opened up, in document order
NavItems(entries) ==
  Flatten([i \in DOMAIN entries |->
             IF isGroup(entries[i]) THEN entries[i].items ELSE <<entries[i]>>])

\* the hrefs template() and renderNavItem() write into the page of a section
PageOf(sections, sec) ==
  LET data == SectionData(sections, sec.id)
      rootPath == RootPath(data.htmlPath)
      items == NavItems(buildNav(sections, data.htmlPath))
  IN [id |-> sec.id,
      htmlPath |-> data.htmlPath,
      stylesheet |-> rootPath \o <<"style.css">>,
      logo |-> rootPath \o <<"index.html">>,
      navHrefs |-> [k \in DOMAIN items |-> rootPath \o <<items[k].href>>]]

\* renderSite when nothing throws, as far as the navigation and the hrefs
\* go: one buildNav and one template per page
RenderSite ==
  /\ ~rendered
  /\ rpc = "idle"
  /\ rendered' = TRUE
  /\ LET sections == RenderSections(navSections)
     IN /\ nav' = [i \in DOMAIN sections |->
                     <<sections[i].id,
                       buildNav(sections, SectionData(sections, sections[i].id).htmlPath)>>]
        /\ pages' = [i \in DOMAIN sections |-> PageOf(sections, sections[i])]
  /\ UNCHANGED <<diskVars, runVars, doneVars, navSections, restVars>>

InitNav ==
  /\ outDirExists = TRUE
  /\ manifestFile = MissingFile
  /\ files = [q \in Paths |-> NoFile]
  /\ pc = "idle"
  /\ force = FALSE
  /\ instructions = Undefined
  /\ specIndex = SpecIndexOf(InfoV1, PetV1)
  /\ specHash = <<>>
  /\ instructionsHash = <<>>
  /\ manifest = NullManifest
  /\ forceAll = FALSE
  /\ plan = <<>>
  /\ sectionsToGenerate = <<>>
  /\ results = <<>>
  /\ cursor = 0
  /\ plannerCalls = 0
  /\ invoked = {}
  /\ failed = {}
  /\ written = {}
  /\ deleted = {}
  /\ manifestWrites = 0
  /\ manifestBefore = manifestFile
  /\ error = ""
  /\ \E ids \in NavIdLists :
       \E attrs \in [DOMAIN ids -> NavGroups \X NavOrders] :
          \E path \in NavPaths("b") :
             navSections = WithPath(NavManifestSections(ids, attrs), "b", path)
  /\ rendered = FALSE
  /\ nav = <<>>
  /\ pages = <<>>
  /\ icon = FALSE
  /\ PassIdle
  /\ HashIdle
  /\ SlugIdle

NextNav == RenderSite

SpecNav == InitNav /\ [][NextNav]_vars

\* ------------------------------------------------------------------------
\* Properties of the generation pipeline
\* ------------------------------------------------------------------------

\* the ids of a sequence of sections
IdsOf(sections) == {sections[i].id : i \in DOMAIN sections}

\* the output paths of a sequence of sections
PathsOf(sections) == {sections[i].outputPath : i \in DOMAIN sections}

\* the ids a manifest's sections object lists
ManifestIds(sections) == {sections[i][1] : i \in DOMAIN sections}

\* the run obtained a plan
Planned == plannerCalls = 1 /\ ~(pc = "aborted" /\ error = "planner.run")

\* the writer loop of the run is over (or was never entered)
WritersSettled ==
  /\ Planned
  /\ pc \in {"files", "cleanup", "manifest", "done"} \/ (pc = "aborted" /\ error = "writeFile")

\* the manifest the run found on disk is usable
HadManifest == manifestBefore.state = "ok"

\* the manifest the run found on disk holds this section's current hash
CachedBefore(section) ==
  /\ HadManifest
  /\ HasEntry(manifestBefore.content.sections, section.id)
  /\ EntryOf(manifestBefore.content.sections, section.id).contentHash
       = computeSectionHash(section, specIndex)

\* C1: after a run that completed and wrote the manifest, a non-forced run
\* with the same spec index and the same instructions returns early: no
\* Planner call, no Writer call, no file written or deleted, the manifest
\* and every section file left as they are.
C1_Idempotent ==
  [][ ( /\ pc = "done"
        /\ manifestWrites = 1
        /\ ~force'
        /\ error' = ""
        /\ specIndex' = specIndex
        /\ instructions' = instructions )
      => ( /\ pc' = "skipped"
           /\ plannerCalls' = 0
           /\ invoked' = {}
           /\ written' = {}
           /\ deleted' = {}
           /\ manifestWrites' = 0
           /\ manifestFile' = manifestFile
           /\ files' = files ) ]_vars

\* a run has returned early over a manifest and files an earlier run wrote
C1_Witness ==
  /\ pc = "skipped"
  /\ ~force
  /\ manifestFile.state = "ok"
  /\ manifestFile = manifestBefore
  /\ manifestFile.content.sections # <<>>
  /\ \E q \in Paths : files[q] # NoFile

\* C2: when the index of this run differs in any component from the index
\* of the run that wrote the manifest, the spec hash differs from the
\* manifest's and a non-forced run does not return early.
C2_SpecHashCoversIndex ==
  [][ ( /\ pc = "done"
        /\ manifestWrites = 1
        /\ ~force'
        /\ error' = ""
        /\ specIndex' # specIndex )
      => ( /\ specHash' # manifest'.specHash
           /\ pc' # "skipped" ) ]_vars

\* C3: in a run that is not forceAll and does not return early, the Writer
\* is called for a planned section exactly when the previous manifest has no
\* entry for its id or the entry's contentHash differs from the section's
\* hash over the current index.
C3_StaleClassification ==
  (WritersSettled /\ ~forceAll) =>
     \A i \in DOMAIN plan : (plan[i].id \in invoked) <=> ~CachedBefore(plan[i])

\* a run that is not forceAll called the Writer for one planned section and
\* skipped another as cached
C3_Witness ==
  /\ pc = "done"
  /\ ~forceAll
  /\ \E i, j \in DOMAIN plan :
       /\ plan[i].id \in invoked
       /\ plan[j].id \notin invoked
       /\ CachedBefore(plan[j])

\* C4: with the force flag set, or no usable manifest, or the manifest's
\* instructionsHash different from the hash of the current instructions,
\* the Writer is called for every planned section, whatever content hashes
\* the manifest holds.
C4_ForceAll ==
  ( /\ WritersSettled
    /\ \/ force
       \/ ~HadManifest
       \/ manifestBefore.content.instructionsHash # InstructionsHashOf(instructions) )
  => ( /\ invoked = IdsOf(plan)
       /\ IdsOf(sectionsToGenerate) = IdsOf(plan) )

\* the instructions changed over a manifest that holds the current hash of a
\* planned section, and the Writer was called for that section all the same
C4_Witness ==
  /\ pc = "done"
  /\ ~force
  /\ HadManifest
  /\ manifestBefore.content.instructionsHash # InstructionsHashOf(instructions)
  /\ \E i \in DOMAIN plan : CachedBefore(plan[i]) /\ plan[i].id \in invoked

\* C5: after a run that rewrites the manifest, manifest.sections has exactly
\* the ids of the current plan, and every entry holds the section's hash
\* over the current index and the section's outputPath, the section cached,
\* regenerated or failed alike.
C5_ManifestComplete ==
  pc = "done" =>
    /\ manifestFile.state = "ok"
    /\ manifestWrites = 1
    /\ ManifestIds(manifestFile.content.sections) = IdsOf(plan)
    /\ Len(manifestFile.content.sections) = Len(plan)
    /\ \A i \in DOMAIN plan :
         /\ EntryOf(manifestFile.content.sections, plan[i].id).contentHash
              = computeSectionHash(plan[i], specIndex)
         /\ EntryOf(manifestFile.content.sections, plan[i].id).outputPath
              = plan[i].outputPath

\* a manifest was rewritten for a plan whose section failed, dropping an id
\* the previous manifest had
C5_Witness ==
  /\ pc = "done"
  /\ HadManifest
  /\ ManifestIds(manifestBefore.content.sections) \ IdsOf(plan) # {}
  /\ plan # <<>>
  /\ failed # {}

\* the output paths of the manifest the run found that the plan lacks
OrphansBefore ==
  IF HadManifest
  THEN {manifestBefore.content.sections[i][2].outputPath :
          i \in DOMAIN manifestBefore.content.sections} \ PathsOf(plan)
  ELSE {}

\* C6: after a run that obtained the plan and completed, no file exists at
\* an outputPath of the previous manifest that the plan lacks, also when no
\* planned section is stale.
C6_OrphansRemoved ==
  pc = "done" => \A q \in OrphansBefore : files[q] = NoFile

\* C7: a Writer call that throws does not end the run: the Writer is still
\* called for every other stale section, every section whose call succeeded
\* has its file written, and the run goes on to the orphan cleanup and the
\* manifest rewrite.
C7_FailureIsolation ==
  failed # {} =>
    /\ pc = "aborted" => error = "writeFile"
    /\ WritersSettled => invoked = IdsOf(sectionsToGenerate)
    /\ pc \in {"cleanup", "manifest", "done"} =>
         \A i \in DOMAIN sectionsToGenerate :
            sectionsToGenerate[i].id \notin failed =>
               /\ sectionsToGenerate[i].outputPath \in written
               /\ files[sectionsToGenerate[i].outputPath] # NoFile
    /\ pc \in {"manifest", "done"} => \A q \in OrphansBefore : files[q] = NoFile
    /\ pc = "done" => manifestWrites = 1 /\ manifestFile.state = "ok"

\* a run completed in which one Writer call threw and another succeeded
C7_Witness ==
  /\ pc = "done"
  /\ failed # {}
  /\ invoked \ failed # {}
  /\ \E i \in DOMAIN plan : plan[i].id \notin failed /\ files[plan[i].outputPath] # NoFile

\* C8: a section whose Writer call failed has no file written at its
\* outputPath in this run, and its manifest entry holds the freshly computed
\* contentHash all the same.
C8_FailedSectionEntry ==
  pc = "done" =>
    \A i \in DOMAIN plan :
       plan[i].id \in failed =>
          /\ plan[i].outputPath \notin written
          /\ ~MapHas(results, plan[i].id)
          /\ HasEntry(manifestFile.content.sections, plan[i].id)
          /\ EntryOf(manifestFile.content.sections, plan[i].id).contentHash
               = computeSectionHash(plan[i], specIndex)

\* a run completed with a failed section that has no file at all
C8_Witness ==
  /\ pc = "done"
  /\ \E i \in DOMAIN plan :
       /\ plan[i].id \in failed
       /\ files[plan[i].outputPath] = NoFile
       /\ HasEntry(manifestFile.content.sections, plan[i].id)

\* C9: a run that ends with a throw of buildSpecIndex, of the Planner, of
\* mkdir or of writeFile leaves the manifest file as the run found it; when
\* the spec cannot be parsed nothing on disk changes, the output directory
\* is not even created.
C9_FatalKeepsManifest ==
  /\ [](pc = "aborted" =>
          /\ error \in {"buildSpecIndex", "mkdir", "planner.run", "writeFile"}
          /\ manifestFile = manifestBefore
          /\ manifestWrites = 0)
  /\ [][ (pc' = "aborted" /\ error' = "buildSpecIndex")
           => (outDirExists' = outDirExists /\ manifestFile' = manifestFile
               /\ files' = files) ]_vars

\* a run wrote a section file, then ended in a throw of writeFile, over a
\* manifest of an earlier run
C9_Witness ==
  /\ pc = "aborted"
  /\ error = "writeFile"
  /\ written # {}
  /\ HadManifest
  /\ manifestFile = manifestBefore

\* ------------------------------------------------------------------------
\* Navigation grouping
\* ------------------------------------------------------------------------

\* the manifest entry of a section id
NavEntryOf(id) == MapGet(navSections, id)

\* position of a section id in manifest.sections
NavPos(id) == CHOOSE i \in DOMAIN navSections : navSections[i][1] = id

\* the order the renderer sorts by: a.order ?? 0
NavKey(id) == IF NavEntryOf(id).order = NoOrder THEN 0 ELSE NavEntryOf(id).order

\* section x comes before section y in ascending order, ties in manifest order
NavPrecedes(x, y) ==
  NavKey(x) < NavKey(y) \/ (NavKey(x) = NavKey(y) /\ NavPos(x) < NavPos(y))

\* the section ids of one navigation entry, in the order the entry lists them
\* (an item's title is its section id in the manifests of the model)
EntryIds(entry) ==
  IF isGroup(entry) THEN [k \in DOMAIN entry.items |-> entry.items[k].title]
  ELSE <<entry.title>>

\* a navigation list groups the sections as the renderer documents it
GroupedInOrder(entries) ==
  /\ \A i \in DOMAIN entries :
       IF isGroup(entries[i])
       THEN \* a bucket holds exactly the sections of its label, ascending
            /\ Range(EntryIds(entries[i])) =
                 {id \in Range([k \in DOMAIN navSections |-> navSections[k][1]]) :
                    NavEntryOf(id).group = entries[i].label}
            /\ entries[i].label # NoGroup
            /\ \A k, l \in DOMAIN entries[i].items :
                 k < l => NavPrecedes(EntryIds(entries[i])[k], EntryIds(entries[i])[l])
       ELSE \* a top-level item is a section without a group
            NavEntryOf(entries[i].title).group = NoGroup
  \* no label has two buckets
  /\ \A i, j \in DOMAIN entries :
       (i # j /\ isGroup(entries[i]) /\ isGroup(entries[j]))
          => entries[i].label # entries[j].label
  \* an entry sits where its first section is
  /\ \A i, j \in DOMAIN entries :
       i < j => NavPrecedes(EntryIds(entries[i])[1], EntryIds(entries[j])[1])

\* the manifest of the documented example: A(group X, order 0),
\* B(no group, order 1), C(group X, order 2)
ExampleManifest ==
  NavManifestSections(<<"a", "b", "c">>, << <<"X", 0>>, <<NoGroup, 1>>, <<"X", 2>> >>)

\* C10: on every page the navigation lists the sections in ascending order
\* of their order field, an ungrouped section as a top-level item at its
\* position, the sections of one label in a single bucket placed where the
\* label first occurs; the documented example gives [Group X [A, C], B].
C10_NavGrouping ==
  rendered =>
    /\ \A p \in DOMAIN nav : GroupedInOrder(nav[p][2])
    /\ navSections = ExampleManifest =>
         \A p \in DOMAIN nav :
            /\ Len(nav[p][2]) = 2
            /\ isGroup(nav[p][2][1])
            /\ nav[p][2][1].label = "X"
            /\ EntryIds(nav[p][2][1]) = <<"a", "c">>
            /\ ~isGroup(nav[p][2][2])
            /\ nav[p][2][2].title = "b"

\* the example manifest has been rendered: section C follows B in order and
\* is in the bucket opened at A's position
C10_Witness ==
  /\ rendered
  /\ navSections = ExampleManifest
  /\ Len(nav) = 3
  /\ EntryIds(nav[1][2][1]) = <<"a", "c">>

\* ------------------------------------------------------------------------
\* Table of contents and relative hrefs of the pages
\* ------------------------------------------------------------------------

\* the output paths the manifest records are pairwise different
DistinctOutputPaths ==
  \A i, j \in DOMAIN navSections :
     i # j => navSections[i][2].outputPath # navSections[j][2].outputPath

\* the pages of the sections are written to pairwise different html paths
DistinctHtmlPaths ==
  \A i, j \in DOMAIN navSections :
     i # j => HtmlPath(navSections[i][2].outputPath) # HtmlPath(navSections[j][2].outputPath)

\* on page p the item of the page's own section, and no other, is active and
\* carries that section's headings
TocScoped(p) ==
  LET id == nav[p][1]
      items == NavItems(nav[p][2])
  IN /\ Cardinality({k \in DOMAIN items : items[k].active}) = 1
     /\ \A k \in DOMAIN items :
          IF items[k].title = id
          THEN /\ items[k].active
               /\ items[k].toc.defined
               /\ items[k].toc.headings = NavHeadings(id)
          ELSE /\ ~items[k].active
               /\ ~items[k].toc.defined

\* C11 as stated: when the sections have pairwise different output paths,
\* on the page of section S exactly one navigation item is active, it is S's
\* and carries S's level-2 and level-3 headings, and every other item is
\* inactive and carries no table of contents.
C11_TocScopedByOutputPath ==
  (rendered /\ DistinctOutputPaths) => \A p \in DOMAIN nav : TocScoped(p)

\* C11 as amended: the same, for sections whose html paths (the output
\* path with a final .md replaced by .html) are pairwise different.
C11_TocScoped ==
  (rendered /\ DistinctHtmlPaths) => \A p \in DOMAIN nav : TocScoped(p)

\* three sections with different html paths are rendered, and on the page of
\* a grouped section with headings its item carries them
C11_Witness ==
  /\ rendered
  /\ DistinctHtmlPaths
  /\ Len(nav) = 3
  /\ \E p \in DOMAIN nav :
       \E i \in DOMAIN nav[p][2] :
          /\ isGroup(nav[p][2][i])
          /\ \E k \in DOMAIN nav[p][2][i].items :
               /\ nav[p][2][i].items[k].active
               /\ nav[p][2][i].items[k].toc.headings # <<>>

\* the prefix the claim gives a page whose path has n segments
ExpectedPrefix(n) == IF n = 1 THEN <<"./">> ELSE [i \in 1..(n - 1) |-> "../"]

\* C12: on a page whose html path has n slash-separated segments the
\* stylesheet href, the logo href and every navigation href start with n - 1
\* times "../", or with "./" when n = 1: endpoints/c.html links
\* ../style.css and index.html links ./style.css.
C12_RootPath ==
  rendered =>
    \A p \in DOMAIN pages :
       LET n == Len(SplitSlash(pages[p].htmlPath))
           items == NavItems(nav[p][2])
       IN /\ pages[p].stylesheet = ExpectedPrefix(n) \o <<"style.css">>
          /\ pages[p].logo = ExpectedPrefix(n) \o <<"index.html">>
          /\ Len(pages[p].navHrefs) = Len(navSections)
          /\ \A k \in DOMAIN items :
               pages[p].navHrefs[k] = ExpectedPrefix(n) \o <<items[k].href>>
          /\ pages[p].htmlPath = "endpoints/c.html"
               => pages[p].stylesheet = <<"../", "style.css">>
          /\ pages[p].htmlPath = "index.html"
               => pages[p].stylesheet = <<"./", "style.css">>
          /\ pages[p].htmlPath = "guides/v2/b.html"
               => pages[p].stylesheet = <<"../", "../", "style.css">>

\* pages at one, two and three segments have been written
C12_Witness ==
  /\ rendered
  /\ \E p, q, r \in DOMAIN pages :
       /\ pages[p].htmlPath = "index.html"
       /\ pages[q].htmlPath = "endpoints/c.html"
       /\ pages[r].htmlPath = "guides/v2/b.html"
       /\ pages[r].navHrefs # <<>>

\* ------------------------------------------------------------------------
\* Heading anchors: slugify, extractHeadings and the heading renderer
\* ------------------------------------------------------------------------
\* A text is a sequence of one-character strings.

\* longest heading text
MaxHeading == 4

\* the backtick character
Backtick == "BACKTICK"

\* the characters of the heading texts: an upper-case and a lower-case
\* letter, a blank, a hyphen, angle brackets, a backtick, a punctuation mark
HeadingChars == {"A", "b", " ", "-", "<", ">", Backtick, "!"}

\* \w
WordChars == {"A", "a", "b", "_"}

\* \s
SpaceChars == {" "}

\* String.prototype.toLowerCase
toLowerCase(text) == [i \in DOMAIN text |-> IF text[i] = "A" THEN "a" ELSE text[i]]

\* text.replace(/[^...]/g, ""): the characters of the set keep, in order
KeepChars(text, keep) == SelectSeqIdx(text, {i \in DOMAIN text : text[i] \in keep})

RECURSIVE Squeeze(_, _, _)
\* text.replace(/[set]+/g, by): every maximal run of characters of the set
\* becomes one by
Squeeze(text, set, by) ==
  IF text = <<>> THEN <<>>
  ELSE IF Head(text) \in set
       THEN IF Len(text) > 1 /\ text[2] \in set
            THEN Squeeze(Tail(text), set, by)
            ELSE <<by>> \o Squeeze(Tail(text), set, by)
       ELSE <<Head(text)>> \o Squeeze(Tail(text), set, by)

RECURSIVE trim(_)
\* String.prototype.trim: white space off both ends
trim(text) ==
  IF text = <<>> THEN <<>>
  ELSE IF Head(text) \in SpaceChars THEN trim(Tail(text))
  ELSE IF text[Len(text)] \in SpaceChars THEN trim(SubSeq(text, 1, Len(text) - 1))
  ELSE text

\* slugify(text)
slugify(text) ==
  trim(Squeeze(Squeeze(KeepChars(toLowerCase(text), WordChars \cup SpaceChars \cup {"-"}),
                       SpaceChars, "-"),
               {"-"}, "-"))

RECURSIVE StripTags(_)
\* text.replace(/<[^>]*>/g, ""): from each < up to the next > is removed
StripTags(text) ==
  IF text = <<>> THEN <<>>
  ELSE LET close == {j \in 2..Len(text) : text[j] = ">"}
       IN IF Head(text) = "<" /\ close # {}
          THEN LET j == CHOOSE k \in close : \A l \in close : k <= l
               IN StripTags(SubSeq(text, j + 1, Len(text)))
          ELSE <<Head(text)>> \o StripTags(Tail(text))

\* the Heading extractHeadings pushes for a line "## text" or "### text":
\* match[2] is the text after the marker
HeadingOf(level, text) ==
  [level |-> level, text |-> KeepChars(text, HeadingChars \ {Backtick}), slug |-> slugify(text)]

\* the id the heading renderer of marked puts on the heading whose token has
\* this text
HeadingId(text) == slugify(StripTags(text))

\* the heading texts: no white space at either end, no closing # marker, so
\* that match[2] and the text of the heading token are the same string
HeadingTexts ==
  {t \in UNION {[1..n -> HeadingChars] : n \in 1..MaxHeading} :
     t[1] \notin SpaceChars /\ t[Len(t)] \notin SpaceChars}

\* one heading of a section body goes through extractHeadings (for the
\* table of contents) and through the heading renderer (for the page)
RenderHeading ==
  /\ anchor = <<>>
  /\ anchor' = [toc |-> HeadingOf(heading.level, heading.text),
                id |-> HeadingId(heading.text)]
  /\ UNCHANGED <<diskVars, runVars, doneVars, navVars, passVars, hashVars, heading>>

\* the generation variables before any run over an existing directory
GenIdle ==
  /\ outDirExists = TRUE
  /\ manifestFile = MissingFile
  /\ files = [q \in Paths |-> NoFile]
  /\ pc = "idle"
  /\ force = FALSE
  /\ instructions = Undefined
  /\ specIndex = SpecIndexOf(InfoV1, PetV1)
  /\ specHash = <<>>
  /\ instructionsHash = <<>>
  /\ manifest = NullManifest
  /\ forceAll = FALSE
  /\ plan = <<>>
  /\ sectionsToGenerate = <<>>
  /\ results = <<>>
  /\ cursor = 0
  /\ plannerCalls = 0
  /\ invoked = {}
  /\ failed = {}
  /\ written = {}
  /\ deleted = {}
  /\ manifestWrites = 0
  /\ manifestBefore = manifestFile
  /\ error = ""

\* nothing has been rendered
NavIdle ==
  /\ navSections = <<>>
  /\ rendered = FALSE
  /\ nav = <<>>
  /\ pages = <<>>
  /\ icon = FALSE

InitSlug ==
  /\ GenIdle
  /\ NavIdle
  /\ PassIdle
  /\ HashIdle
  /\ \E level \in {2, 3}, text \in HeadingTexts : heading = [level |-> level, text |-> text]
  /\ anchor = <<>>

NextSlug == RenderHeading

SpecSlug == InitSlug /\ [][NextSlug]_vars

\* C13: the id the page carries on a level-2 or level-3 heading equals the
\* slug extractHeadings computes for that heading, which the table of
\* contents links to.
C13_AnchorsAgree ==
  anchor # <<>> => anchor.id = anchor.toc.slug

\* ------------------------------------------------------------------------
\* Section hashes over two spec indexes
\* ------------------------------------------------------------------------

\* a schema the index does not have
Absent == "absent"

\* InfoV1 and PetV1 with their keys in the other order
InfoV1R == << <<"version", "1.0.0">>, <<"title", "Petstore">> >>
PetV1R == << <<"required", "name">>, <<"type", "object">> >>

OrderV1 == << <<"type", "object">>, <<"required", "petId">> >>
OrderV2 == << <<"type", "object">>, <<"required", "status">> >>

CreatePet ==
  [path |-> "/pets", method |-> "post",
   operation |-> [operationId |-> "createPet",
                  responses |-> << <<"200", << <<"description", "ok">> >> >>,
                                   <<"500", << <<"description", "gone">> >> >> >>]]

ApiKey == << <<"type", "apiKey">>, <<"name", "X-API-Key">> >>

\* the index buildSpecIndex returns for a spec with this info object, these
\* definitions of schemas Pet and Order (or none), these endpoints under
\* the tags pets and store and these security schemes; storeFirst: the
\* spec lists the store paths before the pets paths
SpecIndexWith(info, pet, order, petsEndpoints, storeEndpoints, security, storeFirst) ==
  [info |-> info,
   servers |-> << "https://api.example.com" >>,
   tags |-> << [name |-> "pets", description |-> "Pet operations"],
               [name |-> "store", description |-> Undefined] >>,
   schemas |-> (IF pet = Absent THEN <<>> ELSE << <<"Pet", pet>> >>)
               \o (IF order = Absent THEN <<>> ELSE << <<"Order", order>> >>),
   pathsByTag |-> IF storeFirst
                  THEN << <<"store", storeEndpoints>>, <<"pets", petsEndpoints>> >>
                  ELSE << <<"pets", petsEndpoints>>, <<"store", storeEndpoints>> >>,
   security |-> security]

\* the indexes of the later run
HashIndexVals ==
  {SpecIndexWith(info, pet, order, pe, se, sec, sf) :
     info \in {InfoV1, InfoV2, InfoV1R},
     pet \in {Absent, PetV1, PetV2, PetV1R},
     order \in {Absent, OrderV1, OrderV2},
     pe \in {<<ListPets>>, <<ListPets, CreatePet>>},
     se \in {<<GetInventory>>, <<>>},
     sec \in {<<>>, <<ApiKey>>},
     sf \in BOOLEAN}

\* the indexes of the earlier run: a full spec, a spec without schemas and
\* security schemes, a second full spec
HashBaseVals ==
  {SpecIndexWith(InfoV1, PetV1, OrderV1, <<ListPets>>, <<GetInventory>>, <<ApiKey>>, FALSE),
   SpecIndexWith(InfoV1, Absent, Absent, <<ListPets>>, <<GetInventory>>, <<>>, FALSE),
   SpecIndexWith(InfoV2, PetV2, OrderV2, <<ListPets, CreatePet>>, <<>>, <<ApiKey>>, TRUE)}

\* a planned section of the given type and dependencies
HashSection(id, type, tags, schemas) ==
  [id |-> id, title |-> id, outputPath |-> "test.md", type |-> type,
   description |-> "Test section", group |-> NoGroup,
   relatedTags |-> tags, relatedSchemas |-> schemas, order |-> 0]

\* the sections hashed: one per type, and endpoint groups over several
\* tag and schema lists
HashSections ==
  << HashSection("overview", "overview", <<>>, <<>>),
     HashSection("auth", "auth", <<>>, <<>>),
     HashSection("schemas", "schemas", <<>>, <<>>),
     HashSection("errors", "errors", <<>>, <<>>),
     HashSection("pets+Pet", "endpoint-group", <<"pets">>, <<"Pet">>),
     HashSection("store", "endpoint-group", <<"store">>, <<>>),
     HashSection("pets", "endpoint-group", <<"pets">>, <<>>),
     HashSection("all", "endpoint-group", <<"store", "pets">>, <<"Pet", "Order">>),
     HashSection("all:tags", "endpoint-group", <<"pets", "store">>, <<"Pet", "Order">>),
     HashSection("all:schemas", "endpoint-group", <<"store", "pets">>, <<"Order", "Pet">>) >>

\* every section is hashed over the index of the earlier run and over the
\* index of the later run, as the classification of a run and the manifest
\* rewrite do
ComputeHashes ==
  /\ hashes = <<>>
  /\ hashes' = [i \in DOMAIN HashSections |->
                  [a |-> computeSectionHash(HashSections[i], indexA),
                   b |-> computeSectionHash(HashSections[i], indexB)]]
  /\ UNCHANGED <<diskVars, runVars, doneVars, navVars, passVars, slugVars, indexA, indexB>>

InitHash ==
  /\ GenIdle
  /\ NavIdle
  /\ PassIdle
  /\ SlugIdle
  /\ indexA \in HashBaseVals
  /\ indexB \in HashIndexVals
  /\ hashes = <<>>

NextHash == ComputeHashes

SpecHash == InitHash /\ [][NextHash]_vars

\* two plain objects hold the same keys with the same values
SameObject(o1, o2) == Len(o1) = Len(o2) /\ Range(o1) = Range(o2)

\* the endpoint list of a tag, empty when the index lacks the tag
EndpointsOf(ix, tag) == IF MapHas(ix.pathsByTag, tag) THEN MapGet(ix.pathsByTag, tag) ELSE <<>>

\* two indexes give a schema name the same definition, or both none
SameSchema(ix1, ix2, name) ==
  /\ MapHas(ix1.schemas, name) = MapHas(ix2.schemas, name)
  /\ MapHas(ix1.schemas, name) =>
       SameObject(MapGet(ix1.schemas, name), MapGet(ix2.schemas, name))

\* two indexes give a schema name the same definition, keys in the same
\* order, or both none
SameSchemaText(ix1, ix2, name) ==
  /\ MapHas(ix1.schemas, name) = MapHas(ix2.schemas, name)
  /\ MapHas(ix1.schemas, name) => MapGet(ix1.schemas, name) = MapGet(ix2.schemas, name)

\* two indexes hold the same content: key order and Map order apart
LogicallyEqual(ix1, ix2) ==
  /\ SameObject(ix1.info, ix2.info)
  /\ ix1.servers = ix2.servers
  /\ ix1.tags = ix2.tags
  /\ \A name \in {"Pet", "Order"} : SameSchema(ix1, ix2, name)
  /\ \A tag \in {"pets", "store"} : EndpointsOf(ix1, tag) = EndpointsOf(ix2, tag)
  /\ Len(ix1.security) = Len(ix2.security)
  /\ \A i \in DOMAIN ix1.security : SameObject(ix1.security[i], ix2.security[i])

\* C14: two indexes that are logically equal, the keys of their objects
\* or the entries of their maps in another order, give every section the
\* same hash.
C14_HashCanonical ==
  (hashes # <<>> /\ LogicallyEqual(indexA, indexB)) =>
     \A i \in DOMAIN HashSections : hashes[i].a = hashes[i].b

\* the index of a section of HashSections, by its id
HashIdx(id) == CHOOSE i \in DOMAIN HashSections : HashSections[i].id = id

\* the components the type of a section selects are the same in both indexes
SelectedUnchanged(section) ==
  CASE section.type = "overview" ->
         /\ indexA.info = indexB.info
         /\ indexA.servers = indexB.servers
         /\ indexA.tags = indexB.tags
    [] section.type = "auth" -> indexA.security = indexB.security
    [] section.type = "endpoint-group" ->
         /\ \A tag \in Range(section.relatedTags) :
              EndpointsOf(indexA, tag) = EndpointsOf(indexB, tag)
         /\ \A name \in Range(section.relatedSchemas) :
              SameSchemaText(indexA, indexB, name)
    [] OTHER -> FALSE

\* C15: an overview hash is the same over two indexes with the same info,
\* servers and tags, an auth hash over two indexes with the same security
\* list, an endpoint-group hash over two indexes that agree on the tags and
\* schemas the section lists, whatever else differs.
C15_HashIndependent ==
  hashes # <<>> =>
     \A i \in DOMAIN HashSections :
        SelectedUnchanged(HashSections[i]) => hashes[i].a = hashes[i].b

\* schema Order, the store endpoints and the security list changed, and
\* the overview hash and the hash of the pets group stayed the same
C15_Witness ==
  /\ hashes # <<>>
  /\ ~SameSchema(indexA, indexB, "Order")
  /\ EndpointsOf(indexA, "store") # EndpointsOf(indexB, "store")
  /\ indexA.security # indexB.security
  /\ hashes[HashIdx("overview")].a = hashes[HashIdx("overview")].b
  /\ hashes[HashIdx("pets+Pet")].a = hashes[HashIdx("pets+Pet")].b
  /\ hashes[HashIdx("schemas")].a # hashes[HashIdx("schemas")].b

\* the endpoint groups of HashSections
EndpointGroups == {i \in DOMAIN HashSections : HashSections[i].type = "endpoint-group"}

\* C16: over one index two endpoint-group sections whose relatedTags sets
\* or relatedSchemas sets differ hash differently, and the hash of an
\* endpoint-group section changes when the endpoint list of one of its
\* tags or the definition of one of its schemas changes.
C16_EndpointGroupSensitive ==
  hashes # <<>> =>
     /\ \A i, j \in EndpointGroups :
          ( \/ Range(HashSections[i].relatedTags) # Range(HashSections[j].relatedTags)
            \/ Range(HashSections[i].relatedSchemas) # Range(HashSections[j].relatedSchemas) )
          => (hashes[i].a # hashes[j].a /\ hashes[i].b # hashes[j].b)
     /\ \A i \in EndpointGroups :
          ( \/ \E tag \in Range(HashSections[i].relatedTags) :
                  EndpointsOf(indexA, tag) # EndpointsOf(indexB, tag)
            \/ \E name \in Range(HashSections[i].relatedSchemas) :
                  ~SameSchema(indexA, indexB, name) )
          => hashes[i].a # hashes[i].b

\* only the definition of schema Pet changed, and the group that lists Pet
\* changed its hash while the group over the same tag without it did not
C16_Witness ==
  /\ hashes # <<>>
  /\ ~SameSchema(indexA, indexB, "Pet")
  /\ MapHas(indexA.schemas, "Pet") /\ MapHas(indexB.schemas, "Pet")
  /\ EndpointsOf(indexA, "pets") = EndpointsOf(indexB, "pets")
  /\ hashes[HashIdx("pets+Pet")].a # hashes[HashIdx("pets+Pet")].b
  /\ hashes[HashIdx("pets")].a = hashes[HashIdx("pets")].b
  /\ hashes[HashIdx("pets")].a # hashes[HashIdx("pets+Pet")].a

\* C17 as stated: over one index the hashes of an overview, an auth and a
\* schemas section are pairwise different.
C17_TypesDifferAlways ==
  hashes # <<>> =>
     /\ hashes[HashIdx("overview")].a # hashes[HashIdx("auth")].a
     /\ hashes[HashIdx("overview")].a # hashes[HashIdx("schemas")].a
     /\ hashes[HashIdx("auth")].a # hashes[HashIdx("schemas")].a

\* C17 as amended: over one index the overview hash differs from the auth
\* hash and from the schemas hash, and the auth hash differs from the
\* schemas hash when the index has a security scheme or a schema.
C17_TypesDiffer ==
  hashes # <<>> =>
     /\ hashes[HashIdx("overview")].a # hashes[HashIdx("auth")].a
     /\ hashes[HashIdx("overview")].a # hashes[HashIdx("schemas")].a
     /\ hashes[HashIdx("overview")].b # hashes[HashIdx("auth")].b
     /\ hashes[HashIdx("overview")].b # hashes[HashIdx("schemas")].b
     /\ (indexA.security # <<>> \/ indexA.schemas # <<>>)
          => hashes[HashIdx("auth")].a # hashes[HashIdx("schemas")].a
     /\ (indexB.security # <<>> \/ indexB.schemas # <<>>)
          => hashes[HashIdx("auth")].b # hashes[HashIdx("schemas")].b

\* the three hashes are pairwise different over an index with schemas and
\* security schemes, and the auth and schemas hashes also over one that has
\* schemas only
C17_Witness ==
  /\ hashes # <<>>
  /\ indexA.security # <<>> /\ indexA.schemas # <<>>
  /\ indexB.security = <<>> /\ indexB.schemas # <<>>
  /\ hashes[HashIdx("overview")].a # hashes[HashIdx("auth")].a
  /\ hashes[HashIdx("auth")].a # hashes[HashIdx("schemas")].a
  /\ hashes[HashIdx("auth")].b # hashes[HashIdx("schemas")].b

\* ------------------------------------------------------------------------
\* Writer scheduling and manifest metadata
\* ------------------------------------------------------------------------

\* the ids of the sections whose writer.run call has settled: the loop
\* awaits each call, so a call has settled when the loop moves on
Settled == ManifestIds(results) \cup failed

\* C18: the Writer calls of all stale sections are started before any of
\* them has settled, and no file is written before all of them have settled.
C18_WritersConcurrent ==
  /\ (Planned /\ Settled # {}) => invoked = IdsOf(sectionsToGenerate)
  /\ written # {} => Settled = IdsOf(sectionsToGenerate)

\* C19: every entry of a rewritten manifest records the title and the order
\* of its section, and the group of a section that has one, besides
\* contentHash, outputPath and generatedAt.
C19_ManifestMetadata ==
  pc = "done" =>
    \A i \in DOMAIN plan :
       LET entry == EntryOf(manifestFile.content.sections, plan[i].id)
       IN /\ {"contentHash", "outputPath", "generatedAt"} \subseteq DOMAIN entry
          /\ "title" \in DOMAIN entry
          /\ entry.title = plan[i].title
          /\ "order" \in DOMAIN entry
          /\ entry.order = plan[i].order
          /\ plan[i].group # NoGroup =>
               ("group" \in DOMAIN entry /\ entry.group = plan[i].group)

\* ------------------------------------------------------------------------
\* The render pass, step by step, and its highlighter
\* ------------------------------------------------------------------------

\* renderSite up to the Marked instance: create the site directory, read
\* and parse the manifest, sort the sections, create the highlighter
RsOpen(manifestOk, createOk) ==
  /\ rpc = "idle"
  /\ ~rendered
  /\ ~manifestOk => createOk
  /\ IF ~manifestOk
     THEN \* readFile or JSON.parse throws
          /\ rpc' = "aborted"
          /\ rerror' = "readManifest"
          /\ UNCHANGED <<highlighter, created, rcursor>>
     ELSE IF ~createOk
     THEN \* createHighlighter throws: there is no instance
          /\ rpc' = "aborted"
          /\ rerror' = "createHighlighter"
          /\ UNCHANGED <<highlighter, created, rcursor>>
     ELSE /\ highlighter' = "live"
          /\ created' = created + 1
          /\ rerror' = ""
          /\ IF navSections = <<>>
             THEN rpc' = "icon" /\ rcursor' = 0
             ELSE rpc' = "reading" /\ rcursor' = 1
  /\ UNCHANGED <<diskVars, runVars, doneVars, navVars, icon, usedBy, hashVars, slugVars>>

\* first pass, one iteration: read the markdown of a section and extract
\* its headings; a readFile that throws ends renderSite
RsRead(ok) ==
  /\ rpc = "reading"
  /\ IF ok
     THEN /\ IF rcursor < Len(navSections)
             THEN rpc' = "reading" /\ rcursor' = rcursor + 1
             ELSE rpc' = "icon" /\ rcursor' = 0
          /\ UNCHANGED rerror
     ELSE /\ rpc' = "aborted"
          /\ rerror' = "readFile"
          /\ UNCHANGED rcursor
  /\ UNCHANGED <<diskVars, runVars, doneVars, navVars, icon, highlighter, created, usedBy,
                 hashVars, slugVars>>

\* copy the icon when the site config names one; a copyFile that throws
\* ends renderSite
RsIcon(ok) ==
  /\ rpc = "icon"
  /\ ~icon => ok
  /\ IF ok
     THEN /\ IF navSections = <<>>
             THEN rpc' = "closing" /\ rcursor' = 0
             ELSE rpc' = "pages" /\ rcursor' = 1
          /\ UNCHANGED rerror
     ELSE /\ rpc' = "aborted"
          /\ rerror' = "copyFile"
          /\ UNCHANGED rcursor
  /\ UNCHANGED <<diskVars, runVars, doneVars, navVars, icon, highlighter, created, usedBy,
                 hashVars, slugVars>>

\* second pass, one iteration: marked.parse with the highlighter, buildNav,
\* template, mkdir and writeFile for one section; a throw ends renderSite
RsPage(ok) ==
  /\ rpc = "pages"
  /\ highlighter = "live"
  /\ LET sections == RenderSections(navSections)
         section == sections[rcursor]
     IN /\ usedBy' = usedBy \cup {section.id}
        /\ IF ok
           THEN /\ nav' = Append(nav, <<section.id,
                                        buildNav(sections,
                                                 SectionData(sections, section.id).htmlPath)>>)
                /\ pages' = Append(pages, PageOf(sections, section))
                /\ IF rcursor < Len(sections)
                   THEN rpc' = "pages" /\ rcursor' = rcursor + 1
                   ELSE rpc' = "closing" /\ rcursor' = 0
                /\ UNCHANGED rerror
           ELSE /\ rpc' = "aborted"
                /\ rerror' = "renderPage"
                /\ UNCHANGED <<nav, pages, rcursor>>
  /\ UNCHANGED <<diskVars, runVars, doneVars, navSections, rendered, icon, highlighter,
                 created, hashVars, slugVars>>

\* write the stylesheet and the llms files, then dispose the highlighter
\* and return; a writeFile that throws ends renderSite before the dispose
RsClose(ok) ==
  /\ rpc = "closing"
  /\ IF ok
     THEN /\ highlighter' = "disposed"
          /\ rpc' = "done"
          /\ rendered' = TRUE
          /\ UNCHANGED rerror
     ELSE /\ rpc' = "aborted"
          /\ rerror' = "writeFile"
          /\ UNCHANGED <<highlighter, rendered>>
  /\ UNCHANGED <<diskVars, runVars, doneVars, navSections, nav, pages, rcursor, icon,
                 created, usedBy, hashVars, slugVars>>

\* the manifests of the render passes: a section is ungrouped or in group
\* X, and has no order or order 0 or 1
InitRender ==
  /\ GenIdle
  /\ HashIdle
  /\ SlugIdle
  /\ PassIdle
  /\ \E ids \in NavIdLists :
       \E attrs \in [DOMAIN ids -> {NoGroup, "X"} \X {NoOrder, 0, 1}] :
          navSections = NavManifestSections(ids, attrs)
  /\ icon \in BOOLEAN
  /\ rendered = FALSE
  /\ nav = <<>>
  /\ pages = <<>>

NextRender ==
  \/ \E manifestOk \in BOOLEAN, createOk \in BOOLEAN : RsOpen(manifestOk, createOk)
  \/ \E ok \in BOOLEAN : RsRead(ok)
  \/ \E ok \in BOOLEAN : RsIcon(ok)
  \/ \E ok \in BOOLEAN : RsPage(ok)
  \/ \E ok \in BOOLEAN : RsClose(ok)

SpecRender == InitRender /\ [][NextRender]_vars

\* C20: a render pass creates the highlighter once, renders every page
\* with that instance, and has disposed it whenever the pass is over after
\* the creation, whether it returned or threw.
C20_HighlighterLifecycle ==
  /\ created <= 1
  /\ usedBy # {} => created = 1
  /\ rpc = "done" => usedBy = ManifestIds(navSections)
  /\ (rpc \in {"done", "aborted"} /\ created = 1) => highlighter = "disposed"

\* ------------------------------------------------------------------------
\* Further properties of the generation pipeline
\* ------------------------------------------------------------------------

\* C21: when a run goes past the early return of step 2, the Planner
\* returns a plan and no planned section is stale, the run ends there: the
\* Writer is not called, no section file is written, and the manifest is
\* rewritten with the current specHash and instructionsHash and one entry
\* per planned section.
C21_NoStaleBranch ==
  [][ ( /\ pc = "planning"
        /\ pc' # "aborted"
        /\ \A i \in DOMAIN plan' : ~forceAll' /\ CachedBefore(plan'[i]) )
      => ( /\ pc' = "done"
           /\ invoked' = {}
           /\ written' = {}
           /\ files' = files
           /\ manifestWrites' = 1
           /\ manifestFile'.state = "ok"
           /\ manifestFile'.content.specHash = SpecHashOf(specIndex')
           /\ manifestFile'.content.instructionsHash = InstructionsHashOf(instructions')
           /\ ManifestIds(manifestFile'.content.sections) = IdsOf(plan')
           /\ Len(manifestFile'.content.sections) = Len(plan') ) ]_vars

\* a run over a changed spec found every section of a non-empty plan cached
\* and rewrote the manifest without calling the Writer
C21_Witness ==
  /\ pc = "done"
  /\ plannerCalls = 1
  /\ plan # <<>>
  /\ ~forceAll
  /\ \A i \in DOMAIN plan : CachedBefore(plan[i])
  /\ invoked = {}
  /\ manifestWrites = 1
  /\ manifestFile # manifestBefore

\* the section is classified stale by the run
Stale(section) == forceAll \/ ~CachedBefore(section)

\* the Writer was called for the section and returned
WriterSucceeded(section) == section.id \in invoked /\ section.id \notin failed

\* the text writeFile stores for a Writer output: a level-1 heading of the
\* returned title, a blank line, the returned markdown, a final newline
FileTextOf(out) == <<"# ", out.title, "\n\n", out.markdown, "\n">>

\* C22: in one run a file is written at a planned section's outputPath
\* exactly when the section is stale and its Writer call succeeded; what is
\* written begins with a level-1 heading of the title the Writer returned;
\* the files at the output paths of cached and of failed sections are
\* neither written nor deleted.
C22_WriteSet ==
  /\ []( Planned =>
           /\ written \subseteq PathsOf(plan)
           /\ \A i \in DOMAIN plan :
                /\ plan[i].outputPath \in written =>
                     /\ Stale(plan[i]) /\ WriterSucceeded(plan[i])
                     /\ \E out \in WriterOutputs :
                          /\ files[plan[i].outputPath] = FileTextOf(out)
                          /\ SubSeq(files[plan[i].outputPath], 1, 2) = <<"# ", out.title>>
                /\ (pc \in {"cleanup", "manifest", "done"}
                      /\ Stale(plan[i]) /\ WriterSucceeded(plan[i]))
                     => plan[i].outputPath \in written
                /\ (~Stale(plan[i]) \/ plan[i].id \in failed) =>
                     plan[i].outputPath \notin written \cup deleted )
  /\ [][ \A i \in DOMAIN plan :
           ( /\ pc \notin Terminal
             /\ pc # "planning"
             /\ ~Stale(plan[i]) \/ plan[i].id \in failed' )
           => files'[plan[i].outputPath] = files[plan[i].outputPath] ]_vars

\* a run completed in which one stale section was written, a cached
\* section kept the file an earlier run wrote, and a failed one has none
C22_Witness ==
  /\ pc = "done"
  /\ \E i, j \in DOMAIN plan :
       /\ plan[i].outputPath \in written
       /\ ~Stale(plan[j])
       /\ files[plan[j].outputPath] # NoFile
       /\ plan[j].outputPath \notin written

\* C23: within one run the manifest is written at most once, and the write
\* is the run's last change of the file system: it comes after every
\* section file write and every orphan deletion of the run, and nothing is
\* written or deleted after it until another run starts.
C23_ManifestWrittenLast ==
  /\ []( /\ manifestWrites <= 1
         /\ manifestWrites = 1 => pc = "done" )
  /\ [][ /\ manifestFile' # manifestFile => manifestWrites' = manifestWrites + 1
         /\ manifestWrites' = manifestWrites + 1 =>
              /\ pc' = "done"
              /\ files' = files
              /\ written' = written
              /\ deleted' = deleted
         /\ (files' # files \/ written' # written \/ deleted' # deleted) =>
              (manifestWrites' = 0 /\ manifestFile' = manifestBefore')
         /\ pc = "done" =>
              (manifestBefore' = manifestFile /\ manifestWrites' = 0 /\ files' = files) ]_vars

\* a run wrote a section file, removed an orphan and then wrote the manifest
C23_Witness ==
  /\ pc = "done"
  /\ manifestWrites = 1
  /\ written # {}
  /\ deleted # {}
  /\ manifestFile # manifestBefore

\* ------------------------------------------------------------------------
\* Section hashes over reordered lists and changed responses
\* ------------------------------------------------------------------------

\* an operation of tag store with a default response and a 500 response
PlaceOrder ==
  [path |-> "/store", method |-> "post",
   operation |-> [operationId |-> "placeOrder",
                  responses |-> << <<"default", << <<"description", "ok">> >> >>,
                                   <<"500", << <<"description", "missing">> >> >> >>]]

\* the endpoint with the description of its response for a status code
\* replaced
WithResponse(e, code, text) ==
  [e EXCEPT !.operation.responses =
     [i \in DOMAIN @ |-> IF @[i][1] = code THEN <<code, << <<"description", text>> >> >>
                         ELSE @[i]]]

\* a sequence back to front
Reverse(s) == [i \in DOMAIN s |-> s[Len(s) + 1 - i]]

\* the indexes of specs that list the same schemas, tags and endpoints in
\* one order or another, and whose responses differ in one place
OrderIndexVals ==
  {[SpecIndexWith(InfoV1, PetV1, OrderV1, pe, se, <<ApiKey>>, sf)
      EXCEPT !.schemas = IF orderFirst THEN Reverse(@) ELSE @] :
     pe \in {<<ListPets>>, <<WithResponse(ListPets, "200", "gone")>>,
             <<WithResponse(ListPets, "404", "gone")>>,
             <<ListPets, CreatePet>>, <<CreatePet, ListPets>>},
     se \in {<<GetInventory>>, <<PlaceOrder>>, <<WithResponse(PlaceOrder, "default", "gone")>>,
             <<WithResponse(PlaceOrder, "500", "gone")>>, <<GetInventory, PlaceOrder>>},
     sf \in BOOLEAN,
     orderFirst \in BOOLEAN}

InitOrder ==
  /\ GenIdle
  /\ NavIdle
  /\ PassIdle
  /\ SlugIdle
  /\ indexA \in OrderIndexVals
  /\ indexB \in OrderIndexVals
  /\ hashes = <<>>

NextOrder == ComputeHashes

SpecOrder == InitOrder /\ [][NextOrder]_vars

\* two lists hold the same elements, each as often
IsPermutation(s, t) ==
  /\ Len(s) = Len(t)
  /\ \A x \in Range(s) \cup Range(t) :
       Cardinality({i \in DOMAIN s : s[i] = x}) = Cardinality({i \in DOMAIN t : t[i] = x})

\* C24: two endpoint-group sections whose relatedTags lists are
\* permutations of each other, and whose relatedSchemas lists are too, have
\* the same hash over one index; the hash of a schemas section is the same
\* over two indexes whose schemas hold the same entries in another order.
C24_OrderInsensitive ==
  hashes # <<>> =>
     /\ \A i, j \in EndpointGroups :
          ( /\ IsPermutation(HashSections[i].relatedTags, HashSections[j].relatedTags)
            /\ IsPermutation(HashSections[i].relatedSchemas, HashSections[j].relatedSchemas) )
          => (hashes[i].a = hashes[j].a /\ hashes[i].b = hashes[j].b)
     /\ IsPermutation(indexA.schemas, indexB.schemas)
          => hashes[HashIdx("schemas")].a = hashes[HashIdx("schemas")].b

\* the schemas were inserted in two orders and the schemas hash is one; a
\* group with its tags permuted and one with its schemas permuted hash as
\* the group they are permutations of
C24_Witness ==
  /\ hashes # <<>>
  /\ indexA.schemas # indexB.schemas
  /\ IsPermutation(indexA.schemas, indexB.schemas)
  /\ hashes[HashIdx("schemas")].a = hashes[HashIdx("schemas")].b
  /\ HashSections[HashIdx("all")].relatedTags # HashSections[HashIdx("all:tags")].relatedTags
  /\ hashes[HashIdx("all")].a = hashes[HashIdx("all:tags")].a
  /\ HashSections[HashIdx("all")].relatedSchemas
       # HashSections[HashIdx("all:schemas")].relatedSchemas
  /\ hashes[HashIdx("all")].a = hashes[HashIdx("all:schemas")].a

\* the status codes of the model that start with "4" or "5"
ErrorCodes == {"404", "500"}

\* the places of an index that hold an error response: tag t, endpoint j of
\* the tag, response k of the endpoint
ErrorPlaces(ix) ==
  {p \in UNION {UNION {{<<t, j, k>> : k \in DOMAIN ix.pathsByTag[t][2][j].operation.responses} :
                         j \in DOMAIN ix.pathsByTag[t][2]} : t \in DOMAIN ix.pathsByTag} :
     ix.pathsByTag[p[1]][2][p[2]].operation.responses[p[3]][1] \in ErrorCodes}

\* the (path, method, status code, response) tuple at a place
ErrorTupleAt(ix, p) ==
  LET e == ix.pathsByTag[p[1]][2][p[2]]
  IN <<e.path, e.method, e.operation.responses[p[3]][1], e.operation.responses[p[3]][2]>>

\* two indexes hold the same error tuples, each as often
SameErrorTuples(ix1, ix2) ==
  \A x \in {ErrorTupleAt(ix1, p) : p \in ErrorPlaces(ix1)}
             \cup {ErrorTupleAt(ix2, p) : p \in ErrorPlaces(ix2)} :
     Cardinality({p \in ErrorPlaces(ix1) : ErrorTupleAt(ix1, p) = x})
       = Cardinality({p \in ErrorPlaces(ix2) : ErrorTupleAt(ix2, p) = x})

\* C25: the hash of an errors section is the same over two indexes exactly
\* when they hold the same (path, method, status code, response) tuples with
\* a status code that starts with 4 or 5: a changed 200 or default response
\* and another order of the tags or of the endpoints leave the hash as it
\* is, a changed 404 or 500 response changes it.
C25_ErrorsHash ==
  hashes # <<>> =>
     (hashes[HashIdx("errors")].a = hashes[HashIdx("errors")].b
        <=> SameErrorTuples(indexA, indexB))

\* two indexes list the tags and the endpoints of tag pets in another order
\* and differ in a default response of tag store, each holds three error
\* responses, and the errors hash is one
C25_Witness ==
  /\ hashes # <<>>
  /\ indexA.pathsByTag[1][1] # indexB.pathsByTag[1][1]
  /\ EndpointsOf(indexA, "pets") # EndpointsOf(indexB, "pets")
  /\ EndpointsOf(indexA, "store") # EndpointsOf(indexB, "store")
  /\ Cardinality(ErrorPlaces(indexA)) = 3
  /\ hashes[HashIdx("errors")].a = hashes[HashIdx("errors")].b

\* ------------------------------------------------------------------------
\* The form of a slug
\* ------------------------------------------------------------------------

\* C26: a slug is lower-case, holds only word characters and hyphens, no
\* white space and no two hyphens in a row, and neither begins nor ends
\* with a hyphen.
C26_SlugForm ==
  anchor # <<>> =>
     \A s \in {anchor.toc.slug, anchor.id} :
        /\ \A i \in DOMAIN s : s[i] \in (WordChars \ {"A"}) \cup {"-"}
        /\ \A i \in DOMAIN s : i > 1 => ~(s[i - 1] = "-" /\ s[i] = "-")
        /\ s # <<>> => (s[1] # "-" /\ s[Len(s)] # "-")

\* ------------------------------------------------------------------------
\* The manifest against the files, and the runs after a failure
\* ------------------------------------------------------------------------

\* C27: whenever a run has completed, every entry of the manifest on disk
\* has a file at its outputPath, also after a run in which a Writer call
\* failed and after one in which a cached section changed its outputPath.
C27_ManifestFilesAgree ==
  (pc \in {"done", "skipped"} /\ manifestFile.state = "ok") =>
     \A i \in DOMAIN manifestFile.content.sections :
        files[manifestFile.content.sections[i][2].outputPath] # NoFile

\* C28: after a run that completed with a failed Writer call for section S,
\* the next non-forced run with the same instructions returns early when
\* the spec index is the same, and when the index changed in content S does
\* not depend on it returns early or classifies S as cached; a run that
\* returns early calls no Writer, and a run calls no Writer for a section
\* it classifies as cached.
C28_NoRetryAfterFailure ==
  /\ [][ (pc = "done" /\ ~force' /\ error' = "" /\ instructions' = instructions) =>
           \A i \in DOMAIN plan :
              plan[i].id \in failed =>
                 /\ specIndex' = specIndex => pc' = "skipped"
                 /\ computeSectionHash(plan[i], specIndex') = computeSectionHash(plan[i], specIndex)
                      => \/ pc' = "skipped"
                         \/ /\ pc' = "planning"
                            /\ ~NeedsRegeneration(plan[i], forceAll', manifest', specIndex') ]_vars
  /\ [](pc = "skipped" => invoked = {})
  /\ [](Planned =>
          \A i \in DOMAIN plan :
             ~NeedsRegeneration(plan[i], forceAll, manifest, specIndex) => plan[i].id \notin invoked)

\* a run over a changed spec has completed without a Writer call for a
\* planned section that the manifest holds as cached at its path and that
\* has no file, as a section has after a failed Writer call
C28_Witness ==
  /\ pc = "done"
  /\ ~force
  /\ ~forceAll
  /\ manifestBefore.content.specHash # specHash
  /\ \E i \in DOMAIN plan :
       /\ CachedBefore(plan[i])
       /\ EntryOf(manifestBefore.content.sections, plan[i].id).outputPath = plan[i].outputPath
       /\ files[plan[i].outputPath] = NoFile
       /\ plan[i].id \notin invoked

\* ------------------------------------------------------------------------
\* Completeness of the navigation
\* ------------------------------------------------------------------------

\* the entries of a navigation list that are items, in the order of the list
TopLevelItems(entries) == SelectSeqIdx(entries, {i \in DOMAIN entries : ~isGroup(entries[i])})

\* C29: there is one page per section, and on every page the navigation
\* holds every section of the manifest exactly once, as a top-level item or
\* inside one group; no group is empty; the items of a group, the top-level
\* items, and the entries by their first section follow the sections sorted
\* by order, sections of equal or missing order in manifest order.
C29_NavComplete ==
  rendered =>
    /\ Len(nav) = Len(navSections)
    /\ {nav[p][1] : p \in DOMAIN nav} = ManifestIds(navSections)
    /\ \A p \in DOMAIN nav :
         LET entries == nav[p][2]
             items == NavItems(entries)
             top == TopLevelItems(entries)
         IN /\ Len(items) = Len(navSections)
            /\ \A id \in ManifestIds(navSections) :
                 /\ Cardinality({k \in DOMAIN items : items[k].title = id}) = 1
                 /\ Cardinality({i \in DOMAIN entries : id \in Range(EntryIds(entries[i]))}) = 1
            /\ \A i \in DOMAIN entries :
                 isGroup(entries[i]) =>
                    /\ entries[i].items # <<>>
                    /\ \A k, l \in DOMAIN entries[i].items :
                         k < l => NavPrecedes(entries[i].items[k].title, entries[i].items[l].title)
            /\ \A k, l \in DOMAIN top : k < l => NavPrecedes(top[k].title, top[l].title)
            /\ \A i, j \in DOMAIN entries :
                 i < j => NavPrecedes(EntryIds(entries[i])[1], EntryIds(entries[j])[1])

\* three sections were rendered, one without an order and two of the same
\* order, the last listed sorted first: the navigation of the first page
\* has a group of two items and a top-level item
C29_Witness ==
  /\ rendered
  /\ Len(navSections) = 3
  /\ \E i \in DOMAIN navSections : navSections[i][2].order = NoOrder
  /\ \E i, j \in DOMAIN navSections :
       i # j /\ NavKey(navSections[i][1]) = NavKey(navSections[j][1])
  /\ \A i \in 1..2 : NavPrecedes(navSections[3][1], navSections[i][1])
  /\ \E i, j \in DOMAIN nav[1][2] :
       /\ isGroup(nav[1][2][i]) /\ Len(nav[1][2][i].items) = 2
       /\ ~isGroup(nav[1][2][j])

\* ------------------------------------------------------------------------
\* Section metadata and the section hash
\* ------------------------------------------------------------------------

\* the section with one of title, outputPath, description, order and group
\* changed, and with all five changed; the id is kept
MetaVariants(section) ==
  {[section EXCEPT !.title = "Renamed"],
   [section EXCEPT !.outputPath = "moved.md"],
   [section EXCEPT !.description = "Other words"],
   [section EXCEPT !.order = 9],
   [section EXCEPT !.group = "Guides"],
   [section EXCEPT !.title = "Renamed", !.outputPath = "moved.md",
                   !.description = "Other words", !.order = 9, !.group = "Guides"]}

\* the section under another id, alone and with the other five fields
IdVariants(section) ==
  {[section EXCEPT !.id = "renamed"],
   [section EXCEPT !.id = "renamed", !.title = "Renamed", !.outputPath = "moved.md",
                   !.description = "Other words", !.order = 9, !.group = "Guides"]}

SectionTypes == {"overview", "auth", "endpoint-group", "schemas", "errors"}

\* a run completed, and the next one, not forced, goes on to the Planner
\* over the manifest the first one wrote
NextRunPlans == pc = "done" /\ pc' = "planning" /\ ~forceAll'

\* every variant has the hash of the section, whatever the section's type
SameHashAsVariants(section, variants, ix) ==
  \A t \in SectionTypes, v \in variants :
     computeSectionHash([v EXCEPT !.type = t], ix)
       = computeSectionHash([section EXCEPT !.type = t], ix)

====
